---- MODULE Spec2Model ----
(***************************************************************************)
(* Model of the plagiarism-highlight service.                              *)
(*                                                                         *)
(*  - Spec   : the scan lifecycle (record store, webhook controller,       *)
(*             plagiarism controller).  Every request handler runs to its  *)
(*             first await in one step (Node runs a handler without        *)
(*             interruption between awaits); the continuation after an     *)
(*             awaited provider call is a separate step.                   *)
(*  - SpecHL : the highlight compositor (TextHighlighter.combineHighlights)*)
(*             applied to inputs drawn from bounded sets.                  *)
(*                                                                         *)
(* Timestamps (createdAt, lastUpdated) are not modelled; the export        *)
(* completion timestamp is modelled as set / not set.                      *)
(***************************************************************************)
EXTENDS Integers, Sequences, FiniteSets, Bags, TLC

\* ---------------------------------------------------------------- bounds
MaxScans == 2      \* scan ids the store ever allocates
MaxOps == 4        \* requests (API calls and callbacks) received in a run
MaxResults == 2    \* length of a Record's incremental match list
MaxTextLen == 3    \* length of a text given to the compositor
MaxAnnotations == 2 \* annotations (both families together) given to it
MaxDeliveries == 2 \* exported-result callbacks in one arrival order

VARIABLES
  scans,        \* scanStore: the Map scanId -> Record
  nextScanId,   \* the next fresh scan id (randomUUID never repeats)
  inflight,     \* bag of handler continuations waiting on a provider call
  reply,        \* the last HTTP reply sent
  exportCalls,  \* per scan id: invocations of plagiarismScanner.exportResults
  completedLog, \* per scan id: the last `completed` payload delivered to the
                \* known Record and how many times in a row it was delivered
  errorLog,     \* the last message a catch block logged ("none" at start)
  ops,          \* requests received so far
  hlInput,      \* input of the highlight functions under check
  hlOutput,     \* their output (or NotRun)
  retry,        \* one run of retryWithBackoff: position, attempt, history
  client,       \* CopyleaksClient: cached token, its expiry, the clock, logins
  exportEvent   \* request.body of the last export-completion callback received

varsLC == <<scans, nextScanId, inflight, reply, exportCalls, completedLog,
           errorLog, ops, client, exportEvent>>
varsHL == <<hlInput, hlOutput>>
vars == <<scans, nextScanId, inflight, reply, exportCalls, completedLog,
          errorLog, ops, hlInput, hlOutput, retry, client, exportEvent>>

\* ------------------------------------------------------------ JS values
Null == [null |-> TRUE]          \* null
Absent == [absent |-> TRUE]      \* undefined / field not present
Some(x) == [v |-> x]

EmptyMap == [k \in {} |-> Null]  \* {}
Put(m, k, x) == [y \in (DOMAIN m) \cup {k} |-> IF y = k THEN x ELSE m[y]]

ScanIds == 1..MaxScans
Texts == {"", "abc"}             \* "" is what a blank text is trimmed to
\* request bodies of POST /plagiarism: the text by its length and by what
\* trim() leaves of it (absent, "", three blanks, "abc", 100001 characters)
SubmitBodies ==
  {[text |-> Absent],
   [text |-> Some([length |-> 0, trimmed |-> ""])],
   [text |-> Some([length |-> 3, trimmed |-> ""])],
   [text |-> Some([length |-> 3, trimmed |-> "abc"])],
   [text |-> Some([length |-> 100001, trimmed |-> "abc"])]}
ResultIds == {"r1", "r2", "__proto__"}
MatchTypes == <<"identical", "minorChanges", "relatedMeaning">>
\* exported comparison payloads: { url, text: { comparison: { <type>:
\* { source: { chars: { starts, lengths } } } } } }
PayloadA ==
  [url |-> "a.example",
   comparison |-> [type \in {"identical"} |-> [starts |-> <<0>>, lengths |-> <<2>>]]]
PayloadB ==
  [url |-> "b.example",
   comparison |-> [type \in {"identical", "minorChanges"} |->
                     IF type = "identical" THEN [starts |-> <<0>>, lengths |-> <<3>>]
                     ELSE [starts |-> <<1>>, lengths |-> <<1>>]]]
ExportData == {PayloadA, PayloadB}
IdLists == {<<>>, <<"r1">>, <<"r1", "r2">>}
CompletedPayloads ==
  {[internet |-> ids, score |-> 40 * Len(ids), totalWords |-> 3] : ids \in IdLists}
\* a `completed` body whose results.internet is [null]
MalformedPayloads ==
  {[internet |-> <<>>, nullEntry |-> TRUE, score |-> 0, totalWords |-> 3]}
ErrorPayloads == {[error |-> "scan failed"]}
CreditsPayloads == {[credits |-> Absent], [credits |-> Some(5)]}
CrawledPayloads == {[text |-> Some("xyz")], [text |-> Absent]}
NewResults == {"m1", "m2"}

StatusPayloads(status) ==
  CASE status = "completed" -> CompletedPayloads
    [] status = "error" -> ErrorPayloads
    [] OTHER -> CreditsPayloads

\* ------------------------------------------------------------- scanStore
Known(s) == s \in DOMAIN scans

createScanRecord(text) ==
  [ text |-> text,
    status |-> "queued",
    summary |-> Null,
    credits |-> Null,
    results |-> <<>>,
    exported |-> [results |-> EmptyMap, resultOrder |-> <<>>, crawled |-> Null,
                  crawledText |-> Null, pdfReport |-> Null, completedAt |-> Null],
    exportStarted |-> FALSE ]

updateStatusUpsert(sc, scanId, status, summary, credits) ==
  LET present == IF scanId \in DOMAIN sc THEN sc
                 ELSE Put(sc, scanId, createScanRecord(""))
  IN [present EXCEPT ![scanId] =
        [@ EXCEPT !.status = status,
                  !.summary = IF summary \notin {Absent, Null} THEN summary ELSE @,
                  !.credits = IF credits # Absent THEN credits ELSE @]]

\* if (payload.summary) ... ; if (payload.credits !== undefined) ...
updateStatus(sc, scanId, status, summary, credits) ==
  IF scanId \notin DOMAIN sc THEN sc
  ELSE [sc EXCEPT ![scanId] =
          [@ EXCEPT !.status = status,
                    !.summary = IF summary \notin {Absent, Null} THEN summary ELSE @,
                    !.credits = IF credits # Absent THEN credits ELSE @]]

addResultUnique(sc, scanId, result) ==
  IF scanId \notin DOMAIN sc THEN sc
  ELSE IF \E i \in 1..Len(sc[scanId].results) : sc[scanId].results[i] = result
         THEN sc
  ELSE [sc EXCEPT ![scanId].results = Append(@, result)]

\* record.results.push(result)
addResult(sc, scanId, result) ==
  IF scanId \notin DOMAIN sc THEN sc
  ELSE [sc EXCEPT ![scanId].results = Append(@, result)]

\* record.exported.results[resultId] = data: assigning the key "__proto__"
\* sets (or ignores) the prototype and creates no own property.  A plain
\* object lists its (non-numeric) keys in the order they were first
\* assigned; resultOrder is that order.
storeExportedResult(sc, scanId, resultId, data) ==
  IF scanId \notin DOMAIN sc THEN sc
  ELSE IF resultId = "__proto__" THEN sc
  ELSE [sc EXCEPT ![scanId].exported.results = Put(@, resultId, data),
                  ![scanId].exported.resultOrder =
                     IF resultId \in DOMAIN sc[scanId].exported.results
                       THEN @ ELSE Append(@, resultId)]

storeCrawled(sc, scanId, crawledPayload, extractedText) ==
  IF scanId \notin DOMAIN sc THEN sc
  ELSE [sc EXCEPT ![scanId].exported.crawled = crawledPayload,
                  ![scanId].exported.crawledText = extractedText]

storePdf(sc, scanId, pdfPayload) ==
  IF scanId \notin DOMAIN sc THEN sc
  ELSE [sc EXCEPT ![scanId].exported.pdfReport = pdfPayload]

markExportStartedNoop(sc, scanId) == sc

markExportStarted(sc, scanId) ==
  IF scanId \notin DOMAIN sc THEN sc
  ELSE [sc EXCEPT ![scanId].exportStarted = TRUE]

markExportCompleted(sc, scanId) ==
  IF scanId \notin DOMAIN sc THEN sc
  ELSE [sc EXCEPT ![scanId].exported.completedAt = Some("now")]

storeDeleteScan(sc, scanId) == [s \in (DOMAIN sc) \ {scanId} |-> sc[s]]

\* --------------------------------------------------------------- replies
NoReply == [code |-> 0, body |-> "none"]
Reply(code, body) == [code |-> code, body |-> body]

IgnoredReplyAsError == Reply(404, "Scan not found")

\* return reply.code(202).send({ ignored: true })
IgnoredReply == Reply(202, "ignored")

\* reply.send({ received: true })
ReceivedReply == Reply(200, "received")
\* reply.code(502).send({ error: "Unable to submit scan", details: error.message })
SubmitFailedReply(message) ==
  [code |-> 502, body |-> "Unable to submit scan", details |-> message]

Await(c) == inflight (+) SetToBag({c})
Resume(c) == inflight (-) SetToBag({c})
Pending(kind) == {c \in BagToSet(inflight) : c.kind = kind}
ExportInFlight(s) == \E c \in Pending("export") : c.scanId = s

UnchangedHL == UNCHANGED <<varsHL, retry, client, exportEvent>>

\* the delivery log of `completed` callbacks reaching a known Record
LogCompleted(s, payload) ==
  [completedLog EXCEPT ![s] =
     IF @.payload = Some(payload)
       THEN [@ EXCEPT !.n = IF @ < 2 THEN @ + 1 ELSE @]
       ELSE [payload |-> Some(payload), n |-> 1]]

\* ---------------------------------------------------- webhookController
\* payload.name, undefined when the value has no such field
Field(value, name) == IF name \in DOMAIN value THEN value[name] ELSE Absent
\* typeof value === "string"
IsString(value) == DOMAIN value = {"v"}
\* if (value): undefined, null and the empty string are falsy
Truthy(value) == value \notin {Absent, Null, Some("")}

extractTextValueFirst(payload) ==
  IF ~Truthy(payload) THEN Null
  ELSE IF IsString(payload) THEN payload
  ELSE IF Truthy(Field(payload, "value")) THEN Field(payload, "value")
  ELSE IF Truthy(Field(payload, "text")) /\ IsString(Field(payload, "text"))
         THEN Field(payload, "text")
  ELSE IF Truthy(Field(payload, "text")) /\ Truthy(Field(Field(payload, "text"), "value"))
         THEN Field(Field(payload, "text"), "value")
  ELSE IF Truthy(Field(payload, "content")) THEN Field(payload, "content")
  ELSE IF Truthy(Field(Field(payload, "document"), "text"))
         THEN Field(Field(payload, "document"), "text")
  ELSE IF Truthy(Field(Field(payload, "html"), "text"))
         THEN Field(Field(payload, "html"), "text")
  ELSE IF Truthy(Field(Field(payload, "result"), "text"))
         THEN Field(Field(payload, "result"), "text")
  ELSE Null

extractText(payload) ==
  IF ~Truthy(payload) THEN Null
  ELSE IF IsString(payload) THEN payload
  ELSE IF Truthy(Field(payload, "text")) /\ IsString(Field(payload, "text"))
         THEN Field(payload, "text")
  ELSE IF Truthy(Field(payload, "text")) /\ Truthy(Field(Field(payload, "text"), "value"))
         THEN Field(Field(payload, "text"), "value")
  ELSE IF Truthy(Field(payload, "value")) THEN Field(payload, "value")
  ELSE IF Truthy(Field(payload, "content")) THEN Field(payload, "content")
  ELSE IF Truthy(Field(Field(payload, "document"), "text"))
         THEN Field(Field(payload, "document"), "text")
  ELSE IF Truthy(Field(Field(payload, "html"), "text"))
         THEN Field(Field(payload, "html"), "text")
  ELSE IF Truthy(Field(Field(payload, "result"), "text"))
         THEN Field(Field(payload, "result"), "text")
  ELSE Null

\* (result) => result.id throws a TypeError on a null entry
hasNullEntry(payload) == "nullEntry" \in DOMAIN payload

\* payload.results?.internet?.length || 0
totalResults(payload) ==
  Len(payload.internet) + (IF hasNullEntry(payload) THEN 1 ELSE 0)

exportResultIdsFromRecord(record, payload) == record.results

errorSummaryDropped(payload) == Absent

\* { summary: { message: payload.error } }
errorSummary(payload) == [message |-> payload.error]

\* (payload.results?.internet || []).map((result) => result.id)
exportResultIds(record, payload) == payload.internet

creditsStatusLiteral(record) == "creditsChecked"

\* scanStore.updateStatus(scanId, record.status, ...)
creditsStatus(record) == record.status

ShouldExportUnguarded(record, resultIds) == Len(resultIds) > 0

ShouldExportAnyLength(record, resultIds) == ~record.exportStarted

\* if (resultIds.length && !record.exportStarted)
ShouldExport(record, resultIds) ==
  Len(resultIds) > 0 /\ ~record.exportStarted

HandleStatus(status, s, payload) ==
  /\ ops < MaxOps
  /\ ops' = ops + 1
  /\ UNCHANGED <<nextScanId, errorLog>>
  /\ UnchangedHL
  /\ IF ~Known(s)
       THEN /\ reply' = IgnoredReply
            /\ UNCHANGED <<scans, inflight, exportCalls, completedLog>>
       ELSE CASE status = "completed" ->
                   LET record == scans[s]
                       summary == [totalResults |-> totalResults(payload),
                                   score |-> payload.score,
                                   totalWords |-> payload.totalWords]
                       updated == updateStatus(scans, s, "completed", summary, Absent)
                       resultIds == exportResultIds(record, payload)
                   IN /\ completedLog' = LogCompleted(s, payload)
                      /\ IF hasNullEntry(payload)
                           THEN /\ scans' = updated
                                /\ reply' = Reply(500, "TypeError")
                                /\ UNCHANGED <<inflight, exportCalls>>
                         ELSE IF ShouldExport(record, resultIds)
                           THEN /\ scans' = markExportStarted(updated, s)
                                /\ exportCalls' = [exportCalls EXCEPT ![s] = @ + 1]
                                /\ inflight' = Await([kind |-> "export", scanId |-> s,
                                                      resultIds |-> resultIds])
                                /\ UNCHANGED reply
                           ELSE /\ scans' = updated
                                /\ reply' = ReceivedReply
                                /\ UNCHANGED <<inflight, exportCalls>>
              [] status = "error" ->
                   /\ scans' = updateStatus(scans, s, "error",
                                            errorSummary(payload), Absent)
                   /\ reply' = ReceivedReply
                   /\ UNCHANGED <<inflight, exportCalls, completedLog>>
              [] OTHER ->
                   /\ scans' = updateStatus(scans, s, creditsStatus(scans[s]),
                                            scans[s].summary, payload.credits)
                   /\ reply' = ReceivedReply
                   /\ UNCHANGED <<inflight, exportCalls, completedLog>>

ExportReturnResetting(c, ok) ==
  /\ c.kind = "export"
  /\ c \in BagToSet(inflight)
  /\ inflight' = Resume(c)
  /\ errorLog' = IF ok THEN errorLog ELSE "Failed to initiate export"
  /\ reply' = ReceivedReply
  /\ scans' = IF ok \/ ~Known(c.scanId) THEN scans
              ELSE [scans EXCEPT ![c.scanId].exportStarted = FALSE]
  /\ UNCHANGED <<nextScanId, exportCalls, completedLog, ops>>
  /\ UnchangedHL

\* the export call settled: success or failure alike are only logged
ExportReturn(c, ok) ==
  /\ c.kind = "export"
  /\ c \in BagToSet(inflight)
  /\ inflight' = Resume(c)
  /\ errorLog' = IF ok THEN errorLog ELSE "Failed to initiate export"
  /\ reply' = ReceivedReply
  /\ UNCHANGED <<scans, nextScanId, exportCalls, completedLog, ops>>
  /\ UnchangedHL

HandleNewResultBlocking(s, result) ==
  /\ ~ExportInFlight(s)
  /\ ops < MaxOps
  /\ ops' = ops + 1
  /\ Known(s) => Len(scans[s].results) < MaxResults
  /\ IF ~Known(s)
       THEN reply' = IgnoredReply /\ UNCHANGED scans
       ELSE scans' = addResult(scans, s, result) /\ reply' = ReceivedReply
  /\ UNCHANGED <<nextScanId, inflight, exportCalls, completedLog, errorLog>>
  /\ UnchangedHL

HandleNewResult(s, result) ==
  /\ ops < MaxOps
  /\ ops' = ops + 1
  /\ Known(s) => Len(scans[s].results) < MaxResults
  /\ IF ~Known(s)
       THEN reply' = IgnoredReply /\ UNCHANGED scans
       ELSE scans' = addResult(scans, s, result) /\ reply' = ReceivedReply
  /\ UNCHANGED <<nextScanId, inflight, exportCalls, completedLog, errorLog>>
  /\ UnchangedHL

HandleResultExport(s, resultId, data) ==
  /\ ops < MaxOps
  /\ ops' = ops + 1
  /\ IF ~Known(s)
       THEN reply' = IgnoredReply /\ UNCHANGED scans
       ELSE /\ scans' = storeExportedResult(scans, s, resultId, data)
            /\ reply' = ReceivedReply
  /\ UNCHANGED <<nextScanId, inflight, exportCalls, completedLog, errorLog>>
  /\ UnchangedHL

HandleCrawled(s, payload) ==
  /\ ops < MaxOps
  /\ ops' = ops + 1
  /\ IF ~Known(s)
       THEN reply' = IgnoredReply /\ UNCHANGED scans
       ELSE LET extractedText == extractText(payload)
            IN /\ scans' = storeCrawled(scans, s, payload, extractedText)
               /\ reply' = Reply(200, IF extractedText # Null
                                        THEN "received, extractedText: true"
                                        ELSE "received, extractedText: false")
  /\ UNCHANGED <<nextScanId, inflight, exportCalls, completedLog, errorLog>>
  /\ UnchangedHL

HandlePdf(s, pdf) ==
  /\ ops < MaxOps
  /\ ops' = ops + 1
  /\ IF ~Known(s)
       THEN reply' = IgnoredReply /\ UNCHANGED scans
       ELSE scans' = storePdf(scans, s, Some(pdf)) /\ reply' = ReceivedReply
  /\ UNCHANGED <<nextScanId, inflight, exportCalls, completedLog, errorLog>>
  /\ UnchangedHL

\* the export-completed event of the provider: { completed, tasks: [{
\* isHealthy }] }, with up to two tasks
TaskLists ==
  {<<>>} \cup {<<[isHealthy |-> a]>> : a \in BOOLEAN}
         \cup {<<[isHealthy |-> a], [isHealthy |-> b]>> : a, b \in BOOLEAN}
ExportCompletions == [completed : BOOLEAN, tasks : TaskLists]
CompletedHealthy == [completed |-> TRUE, tasks |-> <<[isHealthy |-> TRUE]>>]

\* the handler reads request.params.scanId only; request.body is not read
HandleExportCompletion(s, payload) ==
  /\ ops < MaxOps
  /\ ops' = ops + 1
  /\ exportEvent' = Some(payload)
  /\ IF ~Known(s)
       THEN reply' = IgnoredReply /\ UNCHANGED scans
       ELSE scans' = markExportCompleted(scans, s) /\ reply' = ReceivedReply
  /\ UNCHANGED <<nextScanId, inflight, exportCalls, completedLog, errorLog>>
  /\ UNCHANGED <<varsHL, retry, client>>

\* ------------------------------------------------- plagiarismController
validTextUnbounded(text) == text # Absent /\ text.v.length >= 1

\* SubmitScanSchema.text: z.string().min(1).max(100000).trim()
validText(text) ==
  /\ text # Absent
  /\ text.v.length >= 1
  /\ text.v.length <= 100000

SubmitScan(text) ==
  /\ ops < MaxOps
  /\ ops' = ops + 1
  /\ nextScanId <= MaxScans
  /\ scans' = Put(scans, nextScanId, createScanRecord(text))
  /\ nextScanId' = nextScanId + 1
  /\ inflight' = Await([kind |-> "submit", scanId |-> nextScanId])
  /\ UNCHANGED <<reply, exportCalls, completedLog, errorLog>>
  /\ UnchangedHL

SubmitReturnNoRecord(c, ok) ==
  /\ c.kind = "submit"
  /\ c \in BagToSet(inflight)
  /\ inflight' = Resume(c)
  /\ IF ok
       THEN /\ scans' = updateStatus(scans, c.scanId, "pending", Absent, Absent)
            /\ reply' = Reply(202, "pending")
            /\ UNCHANGED errorLog
       ELSE /\ UNCHANGED scans
            /\ reply' = SubmitFailedReply("submit failed")
            /\ errorLog' = "Scan submission failed"
  /\ UNCHANGED <<nextScanId, exportCalls, completedLog, ops>>
  /\ UnchangedHL

\* POST /plagiarism: the body is validated before the handler runs, and a
\* validation error is answered 400 by errorHandler
SubmitRequest(body) ==
  IF validText(body.text)
    THEN SubmitScan(body.text.v.trimmed)
    ELSE /\ ops < MaxOps
         /\ ops' = ops + 1
         /\ reply' = Reply(400, "Validation failed")
         /\ UNCHANGED <<scans, nextScanId, inflight, exportCalls, completedLog, errorLog>>
         /\ UnchangedHL

\* the continuation of submitScan after `await submitTextScan(...)`
SubmitReturn(c, ok) ==
  /\ c.kind = "submit"
  /\ c \in BagToSet(inflight)
  /\ inflight' = Resume(c)
  /\ IF ok
       THEN /\ scans' = updateStatus(scans, c.scanId, "pending", Absent, Absent)
            /\ reply' = Reply(202, "pending")
            /\ UNCHANGED errorLog
       ELSE /\ scans' = updateStatus(scans, c.scanId, "error",
                                     [message |-> "submit failed"], Absent)
            /\ reply' = SubmitFailedReply("submit failed")
            /\ errorLog' = "Scan submission failed"
  /\ UNCHANGED <<nextScanId, exportCalls, completedLog, ops>>
  /\ UnchangedHL

\* resolveBaseText: crawledText if truthy, else text if truthy, else ""
resolveBaseText(record) ==
  IF record.exported.crawledText # Null /\ record.exported.crawledText.v # ""
    THEN record.exported.crawledText.v
    ELSE record.text

exportedCountIgnored(record) == 1

\* Object.keys(record.exported.results).length
exportedCount(record) == Cardinality(DOMAIN record.exported.results)

GetHighlights(s) ==
  /\ ops < MaxOps
  /\ ops' = ops + 1
  /\ IF ~Known(s)
       THEN reply' = Reply(404, "NotFoundError") /\ UNCHANGED errorLog
       ELSE IF exportedCount(scans[s]) = 0
         THEN reply' = Reply(409, "ConflictError") /\ UNCHANGED errorLog
         ELSE IF resolveBaseText(scans[s]) = ""
           THEN /\ reply' = Reply(500, "No text available for highlighting")
                /\ errorLog' = "Failed to generate highlights"
           ELSE reply' = Reply(200, "highlights") /\ UNCHANGED errorLog
  /\ UNCHANGED <<scans, nextScanId, inflight, exportCalls, completedLog>>
  /\ UnchangedHL

\* GET /plagiarism/:scanId
GetScan(s) ==
  /\ ops < MaxOps
  /\ ops' = ops + 1
  /\ reply' = IF ~Known(s) THEN Reply(404, "NotFoundError") ELSE Reply(200, "scan")
  /\ UNCHANGED <<scans, nextScanId, inflight, exportCalls, completedLog, errorLog>>
  /\ UnchangedHL

DeleteScanUnchecked(s) ==
  /\ ops < MaxOps
  /\ ops' = ops + 1
  /\ inflight' = Await([kind |-> "delete", scanId |-> s])
  /\ UNCHANGED <<reply, scans, nextScanId, exportCalls, completedLog, errorLog>>
  /\ UnchangedHL

DeleteScan(s) ==
  /\ ops < MaxOps
  /\ ops' = ops + 1
  /\ IF ~Known(s)
       THEN reply' = Reply(404, "NotFoundError") /\ UNCHANGED inflight
       ELSE inflight' = Await([kind |-> "delete", scanId |-> s]) /\ UNCHANGED reply
  /\ UNCHANGED <<scans, nextScanId, exportCalls, completedLog, errorLog>>
  /\ UnchangedHL

DeleteReturnPropagating(c, ok) ==
  /\ c.kind = "delete"
  /\ c \in BagToSet(inflight)
  /\ inflight' = Resume(c)
  /\ IF ok
       THEN /\ scans' = storeDeleteScan(scans, c.scanId)
            /\ reply' = Reply(200, "success")
            /\ UNCHANGED errorLog
       ELSE /\ reply' = Reply(500, "delete failed")
            /\ errorLog' = "Failed to delete scan in Copyleaks"
            /\ UNCHANGED scans
  /\ UNCHANGED <<nextScanId, exportCalls, completedLog, ops>>
  /\ UnchangedHL

\* the continuation of deleteScan after `await plagiarismScanner.deleteScan`
DeleteReturn(c, ok) ==
  /\ c.kind = "delete"
  /\ c \in BagToSet(inflight)
  /\ inflight' = Resume(c)
  /\ errorLog' = IF ok THEN errorLog ELSE "Failed to delete scan in Copyleaks"
  /\ scans' = storeDeleteScan(scans, c.scanId)
  /\ reply' = Reply(200, "success")
  /\ UNCHANGED <<nextScanId, exportCalls, completedLog, ops>>
  /\ UnchangedHL

\* ------------------------------------------------------- specification
\* the client after its constructor: authToken = null, tokenExpiry = null;
\* now is Date.now() in minutes, pending the login requests not yet
\* answered, issued and answered count them, returned is what the last
\* call of getAuthToken that settled gave its caller
ClientNew ==
  [authToken |-> Null, tokenExpiry |-> Null, now |-> 0, pending |-> 0,
   issued |-> 0, answered |-> 0, obtainedAt |-> Null, returned |-> Null]

InitLC ==
  /\ client = ClientNew
  /\ exportEvent = Null
  /\ scans = EmptyMap
  /\ nextScanId = 1
  /\ inflight = EmptyBag
  /\ reply = NoReply
  /\ exportCalls = [s \in ScanIds |-> 0]
  /\ completedLog = [s \in ScanIds |-> [payload |-> Null, n |-> 0]]
  /\ errorLog = "none"
  /\ ops = 0

HLIdle == [text |-> <<>>, grammar |-> <<>>, matches |-> <<>>]
NotRun == [notRun |-> TRUE]

RetryIdle ==
  [pc |-> "idle", attempt |-> 0, outcomes |-> <<>>, delays |-> <<>>, settled |-> Null]

Init ==
  /\ InitLC
  /\ hlInput = HLIdle
  /\ hlOutput = NotRun
  /\ retry = RetryIdle

Next ==
  \/ \E body \in SubmitBodies : SubmitRequest(body)
  \/ \E c \in Pending("submit"), ok \in BOOLEAN : SubmitReturn(c, ok)
  \/ \E status \in {"completed", "error", "creditsChecked"}, s \in ScanIds :
       \E payload \in StatusPayloads(status) : HandleStatus(status, s, payload)
  \/ \E c \in Pending("export"), ok \in BOOLEAN : ExportReturn(c, ok)
  \/ \E s \in ScanIds, result \in NewResults : HandleNewResult(s, result)
  \/ \E s \in ScanIds, resultId \in ResultIds, data \in ExportData :
       HandleResultExport(s, resultId, data)
  \/ \E s \in ScanIds, payload \in CrawledPayloads : HandleCrawled(s, payload)
  \/ \E s \in ScanIds : HandlePdf(s, "pdf")
  \/ \E s \in ScanIds : HandleExportCompletion(s, CompletedHealthy)
  \/ \E s \in ScanIds : GetScan(s)
  \/ \E s \in ScanIds : GetHighlights(s)
  \/ \E s \in ScanIds : DeleteScan(s)
  \/ \E c \in Pending("delete"), ok \in BOOLEAN : DeleteReturn(c, ok)

Spec == Init /\ [][Next]_vars

\* the service when a provider callback may also carry a malformed body
\* ------------------------------------------- crawled-text callback bodies
\* bodies of a crawled-text callback: a string, no body, or an object
\* with any of the fields the handler looks at
CrawledBodies ==
  {Some("body"), Some(""), Null}
    \cup [text : {Absent, Some(""), Some("t"), [value |-> Some("tv")],
                  [value |-> Some("")], [other |-> Some("o")]},
          value : {Absent, Some("v")},
          content : {Absent, Some("c")},
          document : {Absent, [text |-> Some("d")]},
          html : {Absent, [text |-> Some("h")]},
          result : {Absent, [text |-> Some("r")]}]

NextCrawl ==
  \/ nextScanId = 1 /\ SubmitScan("abc")
  \/ \E c \in Pending("submit"), ok \in BOOLEAN : SubmitReturn(c, ok)
  \/ \E s \in ScanIds, payload \in CrawledBodies : HandleCrawled(s, payload)

SpecCrawl == Init /\ [][NextCrawl]_vars

\* one scan and the export-completion callbacks the provider can send
NextExport ==
  \/ nextScanId = 1 /\ SubmitScan("abc")
  \/ \E c \in Pending("submit"), ok \in BOOLEAN : SubmitReturn(c, ok)
  \/ \E s \in ScanIds, payload \in ExportCompletions :
       HandleExportCompletion(s, payload)

SpecExport == Init /\ [][NextExport]_vars

NextMalformed ==
  \/ Next
  \/ \E s \in ScanIds, payload \in MalformedPayloads :
       HandleStatus("completed", s, payload)

SpecMalformed == Init /\ [][NextMalformed]_vars

\* ------------------------------------------------ lifecycle properties
DeliveredTwice(s) ==
  /\ completedLog[s].n = 2
  /\ completedLog[s].payload.v.internet # <<>>

\* C1: for every Record, under any interleaving of callbacks, the provider
\* export operation (exportResults) is invoked at most once.
C1_ExportAtMostOnce == \A s \in ScanIds : exportCalls[s] <= 1

\* C1 witness: a duplicate `completed` event was handled while the first
\* one's export request was still in flight, and one export was invoked.
C1_Witness ==
  \E s \in DOMAIN scans :
    DeliveredTwice(s) /\ ExportInFlight(s) /\ exportCalls[s] = 1

\* C2 (as amended): once a `completed` callback that lists at least one
\* result id has been delivered to a known scan, once or twice in a row,
\* exportStarted is true and exactly one export call has been made.
C2_IdempotentExport ==
  \A s \in DOMAIN scans :
    (completedLog[s].n >= 1 /\ completedLog[s].payload.v.internet # <<>>)
      => (scans[s].exportStarted /\ exportCalls[s] = 1)

\* C2 witness: the identical `completed` callback, listing result ids, was
\* delivered twice; one export call, exportStarted true.
C2_Witness ==
  \E s \in DOMAIN scans :
    DeliveredTwice(s) /\ scans[s].exportStarted /\ exportCalls[s] = 1

\* C2 as stated: any identical `completed` callback (its result list may be
\* empty) delivered to a known scan leaves exportStarted true after the
\* first delivery, and after the second exactly one export call was made.
C2_Original ==
  \A s \in DOMAIN scans :
    /\ completedLog[s].n >= 1 => scans[s].exportStarted
    /\ completedLog[s].n = 2 => exportCalls[s] = 1

Rank(status) ==
  CASE status = "queued" -> 0
    [] status = "pending" -> 1
    [] OTHER -> 2

Forward(a, b) == a = b \/ (Rank(a) < Rank(b))

\* C3: a Record's status only moves forward along
\* Queued -> Pending -> {Completed, Error}; no step moves it backwards or
\* out of Completed or Error into a different status.
C3_StatusMonotonic ==
  [][\A s \in (DOMAIN scans) \cap (DOMAIN scans') :
       Forward(scans[s].status, scans'[s].status)]_vars

CallbackFor(s) ==
  \/ \E status \in {"completed", "error", "creditsChecked"} :
       \E payload \in StatusPayloads(status) : HandleStatus(status, s, payload)
  \/ \E result \in NewResults : HandleNewResult(s, result)
  \/ \E resultId \in ResultIds, data \in ExportData :
       HandleResultExport(s, resultId, data)
  \/ \E payload \in CrawledPayloads : HandleCrawled(s, payload)
  \/ HandlePdf(s, "pdf")
  \/ \E payload \in ExportCompletions : HandleExportCompletion(s, payload)

\* C4: a callback of any kind that references a scan id not in the store is
\* answered with a success-like (2xx) reply marked ignored, makes no
\* provider call and leaves the store unchanged.
C4_UnknownCallback ==
  [][\A s \in ScanIds :
       (s \notin DOMAIN scans /\ CallbackFor(s))
         => /\ reply'.code \in 200..299
            /\ reply'.body = "ignored"
            /\ scans' = scans
            /\ inflight' = inflight
            /\ exportCalls' = exportCalls]_vars

\* C4 witness: a callback for an unknown scan id was acknowledged as ignored
\* while the store held a Record (for another id).
C4_Witness ==
  /\ reply = IgnoredReply
  /\ DOMAIN scans # {}
  /\ DOMAIN scans # ScanIds

\* C5: when the delete request of an existing Record completes, whether the
\* provider's remote delete succeeded or failed, the Record is gone from
\* the store and the reply is success.
C5_DeleteSucceedsLocally ==
  [][\A c \in Pending("delete") :
       inflight' = inflight (-) SetToBag({c})
         => /\ c.scanId \notin DOMAIN scans'
            /\ reply' = Reply(200, "success")]_vars

\* C5 witness: the remote delete failed (it was logged), the reply was
\* success and an allocated scan id is no longer in the store.
C5_Witness ==
  /\ errorLog = "Failed to delete scan in Copyleaks"
  /\ reply = Reply(200, "success")
  /\ \E s \in 1..(nextScanId - 1) : s \notin DOMAIN scans

\* C6: a highlight request for a known scan fails with ConflictError (409)
\* exactly when the Record holds no exported comparison payload; stored
\* payloads are never removed from a Record, so once one is stored the
\* request no longer fails with ConflictError.
C6_ConflictIffNoExport ==
  [][/\ \A s \in DOMAIN scans :
          GetHighlights(s)
            => ((reply'.code = 409 /\ reply'.body = "ConflictError")
                  <=> DOMAIN scans[s].exported.results = {})
     /\ \A s \in (DOMAIN scans) \cap (DOMAIN scans') :
          DOMAIN scans[s].exported.results
            \subseteq DOMAIN scans'[s].exported.results]_vars

\* C6 witness: a highlight request succeeded for a Record that holds an
\* exported payload although it is still queued with no export started.
C6_Witness ==
  /\ reply = Reply(200, "highlights")
  /\ \E s \in DOMAIN scans :
       /\ DOMAIN scans[s].exported.results # {}
       /\ scans[s].status = "queued"
       /\ ~scans[s].exportStarted

\* C12: a submission creates its record in status "queued"; when the
\* provider's submission call returns, a record that is still stored is
\* "pending" after a success (reply 202) and "error" with the failure
\* message as its summary after a failure (reply 502).
C12_SubmitOutcome ==
  [][/\ nextScanId' # nextScanId =>
          /\ nextScanId \in DOMAIN scans'
          /\ scans'[nextScanId].status = "queued"
     /\ \A c \in Pending("submit") :
          (inflight' = Resume(c) /\ c.scanId \in DOMAIN scans') =>
             \/ /\ reply'.code = 202
                /\ scans'[c.scanId].status = "pending"
             \/ /\ reply'.code = 502
                /\ scans'[c.scanId].status = "error"
                /\ scans'[c.scanId].summary = [message |-> "submit failed"]]_vars

\* a submission has failed, and its record says so
C12_Witness ==
  /\ reply = SubmitFailedReply("submit failed")
  /\ errorLog = "Scan submission failed"
  /\ \E s \in DOMAIN scans :
       /\ scans[s].status = "error"
       /\ scans[s].summary = [message |-> "submit failed"]

\* C14: when the export request of a record settles (failing or not) the
\* record's exportStarted is still true, and from a record whose
\* exportStarted is true no step of any kind clears the flag or makes
\* another export request for it.
C14_FailedExportNotRetried ==
  [][/\ \A c \in Pending("export") :
          (inflight' = Resume(c) /\ c.scanId \in DOMAIN scans) =>
             /\ c.scanId \in DOMAIN scans'
             /\ scans'[c.scanId].exportStarted
     /\ \A s \in DOMAIN scans \cap DOMAIN scans' :
          scans[s].exportStarted =>
             /\ scans'[s].exportStarted
             /\ exportCalls'[s] = exportCalls[s]]_vars

\* an export request has failed, the `completed` event listing result ids
\* was delivered again, and still one export request was made
C14_Witness ==
  /\ errorLog = "Failed to initiate export"
  /\ \E s \in DOMAIN scans :
       /\ DeliveredTwice(s)
       /\ ~ExportInFlight(s)
       /\ scans[s].exportStarted
       /\ exportCalls[s] = 1

\* C15: every step that makes an export request for a record puts in
\* flight one request that lists exactly the result ids of the `completed`
\* event handled in that step, whatever the record's list of incremental
\* matches holds.
C15_ExportListsPayloadIds ==
  [][\A s \in ScanIds :
       exportCalls'[s] # exportCalls[s] =>
          /\ completedLog'[s].payload # Null
          /\ inflight' = Await([kind |-> "export", scanId |-> s,
                                resultIds |-> completedLog'[s].payload.v.internet])]_vars

\* an export request is in flight for a record that holds one incremental
\* match; the request lists the two ids of the `completed` payload
C15_Witness ==
  \E c \in Pending("export") :
    /\ c.scanId \in DOMAIN scans
    /\ Len(scans[c.scanId].results) = 1
    /\ c.resultIds = <<"r1", "r2">>
    /\ completedLog[c.scanId].payload.v.internet = c.resultIds

\* C16: a new-result callback for a known scan appends its payload as one
\* entry at the end of the record's list of incremental matches (the
\* entries already there keep their places, an equal entry is not merged),
\* changes nothing else of the record, whatever its status, and makes no
\* export request.
C16_NewResultAppends ==
  [][\A s \in DOMAIN scans : \A result \in NewResults :
       HandleNewResult(s, result) =>
          /\ scans' = [scans EXCEPT ![s].results = Append(@, result)]
          /\ exportCalls' = exportCalls
          /\ inflight' = inflight]_vars

\* a record that has completed and started its export holds the same
\* incremental match twice
C16_Witness ==
  \E s \in DOMAIN scans :
    /\ scans[s].status = "completed"
    /\ scans[s].exportStarted
    /\ scans[s].results = <<"m1", "m1">>

\* the requests and match lists within the bounds of the exploration
WithinBudget(s) == ops < MaxOps /\ Len(scans[s].results) < MaxResults

\* C17: while an export request is in flight, a new-result callback for
\* the exporting scan and for every other known scan can be handled at
\* once, and the step in which the export request returns changes no
\* record, so what the callbacks stored meanwhile is still there.
C17_CallbacksDoNotWaitForExport ==
  /\ [](\A c \in Pending("export") : \A s \in DOMAIN scans :
          WithinBudget(s) => ENABLED HandleNewResult(s, "m1"))
  /\ [][\A c \in Pending("export") : inflight' = Resume(c) => scans' = scans]_vars

\* the export request of a record has returned and the `completed` event
\* was answered, a second record is stored, and the exporting record holds
\* an incremental match
C17_Witness ==
  /\ reply = ReceivedReply
  /\ \E s, o \in DOMAIN scans :
       /\ s # o
       /\ exportCalls[s] = 1
       /\ ~ExportInFlight(s)
       /\ scans[s].exportStarted
       /\ scans[s].results # <<>>

\* C18: an `error` status event for a known scan sets the record's status
\* to "error" and its summary to the event's error detail, and leaves
\* every other field of the record (exportStarted, the export-completed
\* timestamp, the exported payloads, the incremental matches), every other
\* record and the export requests unchanged.
C18_ErrorEventFrame ==
  [][\A s \in DOMAIN scans : \A payload \in ErrorPayloads :
       HandleStatus("error", s, payload) =>
          /\ scans' = [scans EXCEPT ![s].status = "error",
                                    ![s].summary = [message |-> payload.error]]
          /\ exportCalls' = exportCalls
          /\ inflight' = inflight]_vars

\* an `error` event reached a record whose export had started and that
\* holds an incremental match
C18_Witness ==
  /\ reply = ReceivedReply
  /\ \E s \in DOMAIN scans :
       /\ scans[s].status = "error"
       /\ scans[s].summary = [message |-> "scan failed"]
       /\ scans[s].exportStarted
       /\ scans[s].results # <<>>

\* C19: a `creditsChecked` status event for a known scan changes at most
\* the record's credits (to the event's credits, when it carries any):
\* status, summary, incremental matches, exported payloads and export
\* flags of the record, every other record and the export requests are
\* the same before and after.
C19_CreditsEventFrame ==
  [][\A s \in DOMAIN scans : \A payload \in CreditsPayloads :
       HandleStatus("creditsChecked", s, payload) =>
          /\ scans' = [scans EXCEPT ![s].credits =
                         IF payload.credits # Absent THEN payload.credits ELSE @]
          /\ exportCalls' = exportCalls
          /\ inflight' = inflight]_vars

\* a `creditsChecked` event reached a completed record
C19_Witness ==
  /\ reply = ReceivedReply
  /\ \E s \in DOMAIN scans :
       /\ scans[s].credits = Some(5)
       /\ scans[s].status = "completed"
       /\ scans[s].summary # Null
       /\ scans[s].exportStarted

\* C20: last write wins, key by key.  An exported-result callback for a
\* known scan leaves its resultId mapped to its payload and every other
\* key, the crawled text and the report as they were; a crawled-text
\* callback leaves the crawled payload and the text drawn from it, a
\* report callback leaves the report, and each leaves the other keys as
\* they were.
C20_LastWriteWins ==
  [][\A s \in DOMAIN scans :
       /\ \A resultId \in ResultIds : \A data \in ExportData :
            HandleResultExport(s, resultId, data) =>
               LET before == scans[s].exported.results
                   after == scans'[s].exported.results
               IN /\ resultId \in DOMAIN after
                  /\ after[resultId] = data
                  /\ DOMAIN after = DOMAIN before \cup {resultId}
                  /\ \A k \in DOMAIN before \ {resultId} : after[k] = before[k]
                  /\ scans'[s].exported.crawled = scans[s].exported.crawled
                  /\ scans'[s].exported.crawledText = scans[s].exported.crawledText
                  /\ scans'[s].exported.pdfReport = scans[s].exported.pdfReport
       /\ \A payload \in CrawledPayloads :
            HandleCrawled(s, payload) =>
               /\ scans'[s].exported.crawled = payload
               /\ scans'[s].exported.crawledText = extractText(payload)
               /\ scans'[s].exported.results = scans[s].exported.results
               /\ scans'[s].exported.pdfReport = scans[s].exported.pdfReport
       /\ \A pdf \in {"pdf"} :
            HandlePdf(s, pdf) =>
               /\ scans'[s].exported.pdfReport = Some(pdf)
               /\ scans'[s].exported.results = scans[s].exported.results
               /\ scans'[s].exported.crawledText = scans[s].exported.crawledText]_vars

\* C21: every step in which a callback handler answers the provider,
\* the answer of a `completed` event after its export request failed
\* included, answers with a 2xx status.
C21_CallbacksAcknowledged ==
  [][(\/ \E s \in ScanIds : CallbackFor(s)
      \/ \E s \in ScanIds, payload \in MalformedPayloads :
           HandleStatus("completed", s, payload)
      \/ \E c \in Pending("export") : inflight' = Resume(c))
       => (reply' = reply \/ reply'.code \in 200..299)]_vars

\* C22: a direct get, highlight or delete request for a scan id that is
\* not in the store is answered 404 NotFoundError, starts no provider call
\* and leaves the store unchanged.
C22_UnknownScanNotFound ==
  [][\A s \in ScanIds :
       (s \notin DOMAIN scans /\ (GetScan(s) \/ GetHighlights(s) \/ DeleteScan(s)))
         => /\ reply' = Reply(404, "NotFoundError")
            /\ scans' = scans
            /\ inflight' = inflight
            /\ exportCalls' = exportCalls]_vars

\* a request for an unknown scan id was answered 404 while the store held
\* a record and no provider call was in flight
C22_Witness ==
  /\ reply = Reply(404, "NotFoundError")
  /\ DOMAIN scans # {}
  /\ inflight = EmptyBag

\* C23: a submission whose text is missing, empty or longer than 100000
\* characters is answered 400 and has no effect: no record is created and
\* no provider call is started.
C23_InvalidSubmissionRejected ==
  [][\A body \in SubmitBodies :
       (/\ \/ body.text = Absent
           \/ body.text.v.length = 0
           \/ body.text.v.length > 100000
        /\ SubmitRequest(body))
         => /\ reply'.code = 400
            /\ scans' = scans
            /\ nextScanId' = nextScanId
            /\ inflight' = inflight]_vars

\* a submission was rejected as invalid after an earlier one was accepted
C23_Witness ==
  /\ reply = Reply(400, "Validation failed")
  /\ Cardinality(DOMAIN scans) = 1
  /\ nextScanId = 2

\* C24: the failure answered to the caller of a submission whose provider
\* call failed carries a retryable flag (true or false).
C24_SubmitFailureRetryable ==
  reply.code = 502 => ("retryable" \in DOMAIN reply /\ reply.retryable \in BOOLEAN)

\* the values the lookups find in a body, in the order they are tried:
\* string body; {text}; {text:{value}}; {value}; {content};
\* {document:{text}}; {html:{text}}; {result:{text}}
Lookups(body) ==
  <<IF "v" \in DOMAIN body THEN body ELSE Absent,
    IF "text" \in DOMAIN body /\ "v" \in DOMAIN body.text THEN body.text ELSE Absent,
    IF "text" \in DOMAIN body /\ "value" \in DOMAIN body.text
      THEN body.text.value ELSE Absent,
    IF "value" \in DOMAIN body THEN body.value ELSE Absent,
    IF "content" \in DOMAIN body THEN body.content ELSE Absent,
    IF "document" \in DOMAIN body /\ "text" \in DOMAIN body.document
      THEN body.document.text ELSE Absent,
    IF "html" \in DOMAIN body /\ "text" \in DOMAIN body.html
      THEN body.html.text ELSE Absent,
    IF "result" \in DOMAIN body /\ "text" \in DOMAIN body.result
      THEN body.result.text ELSE Absent>>

\* a lookup matches when it finds a non-empty value
Matching(body) ==
  {n \in 1..Len(Lookups(body)) : Lookups(body)[n] \notin {Absent, Null, [v |-> ""]}}

\* the value of the first lookup that matches, null when none does
FirstMatch(body) ==
  IF Matching(body) = {} THEN Null
  ELSE Lookups(body)[CHOOSE n \in Matching(body) : \A m \in Matching(body) : n <= m]

\* C34: the processed text stored with a crawled-text body is the value of
\* the first lookup that matches, and null when no lookup matches.
C34_FirstMatchingLookup ==
  \A s \in DOMAIN scans :
    scans[s].exported.crawledText = FirstMatch(scans[s].exported.crawled)

\* C34 witness: a body in which the lookups {text:{value}}, {value} and
\* {result:{text}} all match was stored with the value of {text:{value}}.
C34_Witness ==
  \E s \in DOMAIN scans :
    /\ scans[s].exported.crawled # Null
    /\ Matching(scans[s].exported.crawled) = {3, 4, 8}
    /\ scans[s].exported.crawledText = Some("tv")

\* what the handling of a `completed` event does to the export of its scan
CompletedStep ==
  \A s \in DOMAIN scans, payload \in CompletedPayloads :
    HandleStatus("completed", s, payload)
      => IF payload.internet = <<>>
           THEN /\ exportCalls' = exportCalls
                /\ inflight' = inflight
                /\ scans'[s].exportStarted = scans[s].exportStarted
           ELSE IF ~scans[s].exportStarted
             THEN /\ exportCalls' = [exportCalls EXCEPT ![s] = 1]
                  /\ scans'[s].exportStarted
                  /\ inflight' = Await([kind |-> "export", scanId |-> s,
                                        resultIds |-> payload.internet])
             ELSE exportCalls' = exportCalls /\ inflight' = inflight

Deleted == {s \in ScanIds : s < nextScanId /\ s \notin DOMAIN scans}

\* C38: once delete has removed a Record, no later step (a callback for
\* that id, or the continuation of a submission or export call that was in
\* flight when the delete happened) puts an entry for that scan id back.
C38_DeletedStaysDeleted ==
  [][\A s \in Deleted : s \notin DOMAIN scans']_vars

\* C38 witness: the only scan ever submitted was deleted while its
\* submission call was in flight, and the submission's continuation has
\* run since (its reply is the last one sent).
C38_Witness ==
  /\ nextScanId = 2
  /\ Deleted = {1}
  /\ inflight = EmptyBag
  /\ reply = Reply(202, "pending")

\* an export-completion payload that reports completed with every task healthy
AllHealthy(payload) ==
  /\ payload.completed
  /\ \A i \in DOMAIN payload.tasks : payload.tasks[i].isHealthy

\* the Records whose export-completed timestamp is set by this step
CompletionStamped ==
  {s \in DOMAIN scans \cap DOMAIN scans' :
     /\ scans[s].exported.completedAt = Null
     /\ scans'[s].exported.completedAt # Null}

\* C40: a Record's export-completed timestamp is set only in response to an
\* export-completion callback whose payload reports completed with every
\* task healthy; a callback that reports an unhealthy task or not completed
\* leaves the timestamp unset.
C40_StampedOnlyWhenHealthy ==
  [][CompletionStamped # {}
       => (/\ ops' = ops + 1
           /\ reply' = ReceivedReply
           /\ exportEvent' # Null
           /\ AllHealthy(exportEvent'.v))]_vars

\* ------------------------------------------------------ TextHighlighter
Reverse(seq) == [i \in 1..Len(seq) |-> seq[Len(seq) + 1 - i]]
InsertAt(seq, i, x) == SubSeq(seq, 1, i) \o <<x>> \o SubSeq(seq, i + 1, Len(seq))
Min(a, b) == IF a < b THEN a ELSE b
Max(a, b) == IF a > b THEN a ELSE b

\* start = Math.max(0, start); length = Math.min(length, text.length - start)
ClampStart(start) == Max(0, start)
ClampLengthFromOrigin(text, start, length) == Min(length, Len(text))
ClampLength(text, start, length) == Min(length, Len(text) - ClampStart(start))

\* validation of one grammar error and the highlight pushed for it
GrammarKept(text, error) ==
  /\ error.position.length # 0
  /\ ClampLength(text, error.position.start, error.position.length) > 0

GrammarHighlight(text, error) ==
  LET start == ClampStart(error.position.start)
      length == ClampLength(text, error.position.start, error.position.length)
  IN [start |-> start, length |-> length, end |-> start + length,
      type |-> "grammar", subType |-> error.type,
      severity |-> "warning", message |-> "Grammar issue detected"]

\* match.source || "Unknown source" and match.sourceUrl || ""
MatchSource(match) ==
  IF "source" \in DOMAIN match THEN match.source ELSE "Unknown source"
MatchSourceUrl(match) ==
  IF "sourceUrl" \in DOMAIN match THEN match.sourceUrl ELSE ""

\* validation of one plagiarism match and the highlight pushed for it
MatchKept(text, match) ==
  /\ match.length # 0
  /\ ClampLength(text, match.start, match.length) > 0

MatchHighlightOffByOne(text, match) ==
  LET start == ClampStart(match.start)
      length == ClampLength(text, match.start, match.length)
  IN [start |-> start, length |-> length, end |-> start + length - 1,
      type |-> "plagiarism", subType |-> match.matchType,
      source |-> MatchSource(match), sourceUrl |-> MatchSourceUrl(match)]

MatchHighlight(text, match) ==
  LET start == ClampStart(match.start)
      length == ClampLength(text, match.start, match.length)
  IN [start |-> start, length |-> length, end |-> start + length,
      type |-> "plagiarism", subType |-> match.matchType,
      source |-> MatchSource(match), sourceUrl |-> MatchSourceUrl(match)]

collectHighlights(text, errors, matches) ==
  LET keptErrors == SelectSeq(errors, LAMBDA e : GrammarKept(text, e))
      keptMatches == SelectSeq(matches, LAMBDA m : MatchKept(text, m))
  IN [i \in 1..Len(keptErrors) |-> GrammarHighlight(text, keptErrors[i])]
       \o [i \in 1..Len(keptMatches) |-> MatchHighlight(text, keptMatches[i])]

\* Array.prototype.sort for fewer than 64 elements is a binary insertion
\* sort: each element is the pivot compared against the sorted prefix, and
\* it goes left of arr[mid] exactly when compare(pivot, arr[mid]) < 0.
RECURSIVE SearchByStart(_, _, _, _)
SearchByStart(arr, pivot, left, right) ==
  IF left >= right THEN left
  ELSE LET mid == left + ((right - left) \div 2)
       IN IF pivot.start - arr[mid + 1].start < 0
            THEN SearchByStart(arr, pivot, left, mid)
            ELSE SearchByStart(arr, pivot, mid + 1, right)

RECURSIVE sortByStart(_, _, _)
\* allHighlights.sort((a, b) => a.start - b.start)
sortByStart(arr, k, sorted) ==
  IF k > Len(arr) THEN sorted
  ELSE sortByStart(arr, k + 1,
         InsertAt(sorted, SearchByStart(sorted, arr[k], 0, Len(sorted)), arr[k]))

\* the comparator given to events.sort
compareEvents(a, b) ==
  IF a.position # b.position THEN a.position - b.position
  ELSE IF a.type = "end" THEN -1 ELSE 1

RECURSIVE SearchEvent(_, _, _, _)
SearchEvent(arr, pivot, left, right) ==
  IF left >= right THEN left
  ELSE LET mid == left + ((right - left) \div 2)
       IN IF compareEvents(pivot, arr[mid + 1]) < 0
            THEN SearchEvent(arr, pivot, left, mid)
            ELSE SearchEvent(arr, pivot, mid + 1, right)

sortEventsSkipped(arr, k, sorted) == arr

RECURSIVE sortEvents(_, _, _)
\* events.sort(...)
sortEvents(arr, k, sorted) ==
  IF k > Len(arr) THEN sorted
  ELSE sortEvents(arr, k + 1,
         InsertAt(sorted, SearchEvent(sorted, arr[k], 0, Len(sorted)), arr[k]))

\* one start and one end event per highlight, pushed in that order
makeEvents(highlights) ==
  [j \in 1..(2 * Len(highlights)) |->
     LET index == (j + 1) \div 2
     IN IF j % 2 = 1
          THEN [position |-> highlights[index].start, type |-> "start", index |-> index]
          ELSE [position |-> highlights[index].end, type |-> "end", index |-> index]]

ActiveValuesLatest(highlights, active) == <<highlights[active[Len(active)]]>>

\* activeHighlights is a Map: set appends a new key, delete removes it
ActiveValues(highlights, active) == [i \in 1..Len(active) |-> highlights[active[i]]]

RECURSIVE sweep(_, _, _, _, _, _)
sweep(highlights, events, k, lastPos, active, resolved) ==
  IF k > Len(events) THEN resolved
  ELSE LET event == events[k]
           emitted ==
             IF event.position > lastPos /\ Len(active) > 0
               THEN Append(resolved,
                      [start |-> lastPos, end |-> event.position,
                       length |-> event.position - lastPos,
                       highlights |-> ActiveValues(highlights, active)])
               ELSE resolved
           nextActive ==
             IF event.type = "start"
               THEN Append(active, event.index)
               ELSE SelectSeq(active, LAMBDA i : i # event.index)
       IN sweep(highlights, events, k + 1, event.position, nextActive, emitted)

resolveOverlaps(highlights) ==
  IF Len(highlights) = 0 THEN <<>>
  ELSE sweep(highlights, sortEvents(makeEvents(highlights), 1, <<>>), 1, 0, <<>>, <<>>)

\* generateHTML calls wrapInHighlights on every segment, and that reverses
\* segment.highlights in place
afterGenerateHTML(resolved) ==
  [i \in 1..Len(resolved) |-> [resolved[i] EXCEPT !.highlights = Reverse(@)]]

\* this.cssClasses
cssClasses ==
  [grammar |-> "grammar-error", spelling |-> "spelling-error",
   punctuation |-> "punctuation-error", style |-> "style-issue",
   plagiarism |-> "plagiarism-match", plagiarismIdentical |-> "plagiarism-identical",
   plagiarismMinor |-> "plagiarism-minor",
   plagiarismParaphrased |-> "plagiarism-paraphrased"]

getCssClass(highlight) ==
  IF highlight.type = "grammar"
    THEN IF highlight.subType \in DOMAIN cssClasses
           THEN cssClasses[highlight.subType] ELSE cssClasses.grammar
    ELSE CASE highlight.subType = "identical" -> cssClasses.plagiarismIdentical
           [] highlight.subType = "minorChanges" -> cssClasses.plagiarismMinor
           [] highlight.subType = "paraphrased" -> cssClasses.plagiarismParaphrased
           [] OTHER -> cssClasses.plagiarism

\* htmlEscapes[char] for one character of the text
escapeChar(char) ==
  CASE char = "&" -> "&amp;"
    [] char = "<" -> "&lt;"
    [] char = ">" -> "&gt;"
    [] char = "\"" -> "&quot;"
    [] char = "'" -> "&#39;"
    [] OTHER -> char

RECURSIVE escapeHtml(_)
\* textStr.replace(/[&<>"']/g, ...) over the characters of the text
escapeHtml(text) ==
  IF Len(text) = 0 THEN "" ELSE escapeChar(Head(text)) \o escapeHtml(Tail(text))

\* attrs.join(" "); the messages, sources and urls of the model hold no
\* character that escapeHtml replaces
getDataAttributes(highlight) ==
  IF highlight.type = "grammar"
    THEN "data-type=\"grammar\" data-message=\"" \o highlight.message
           \o "\" data-severity=\"" \o highlight.severity \o "\""
    ELSE "data-type=\"plagiarism\" data-source=\"" \o highlight.source \o "\""
           \o (IF highlight.sourceUrl = "" THEN ""
               ELSE " data-source-url=\"" \o highlight.sourceUrl \o "\"")

\* `<span class="${cssClass}" ${dataAttributes}>${wrapped}</span>`
Span(highlight, wrapped) ==
  "<span class=\"" \o getCssClass(highlight) \o "\" " \o getDataAttributes(highlight)
    \o ">" \o wrapped \o "</span>"

RECURSIVE wrapFrom(_, _, _)
\* highlights.forEach((highlight) => { wrapped = `<span ...>${wrapped}</span>` })
wrapFrom(wrapped, highlights, k) ==
  IF k > Len(highlights) THEN wrapped
  ELSE wrapFrom(Span(highlights[k], wrapped), highlights, k + 1)

wrapInHighlightsForward(text, highlights) == wrapFrom(escapeHtml(text), highlights, 1)

\* highlights.reverse().forEach(...)
wrapInHighlights(text, highlights) == wrapFrom(escapeHtml(text), Reverse(highlights), 1)

\* text.substring(from, to): both indexes are brought into 0..text.length
substring(text, from, to) ==
  SubSeq(text, Min(Max(0, from), Len(text)) + 1, Min(Max(0, to), Len(text)))

RECURSIVE htmlFrom(_, _, _, _)
\* resolvedHighlights.forEach of generateHTML, then the remaining text
htmlFrom(text, resolved, k, lastIndex) ==
  IF k > Len(resolved)
    THEN IF lastIndex < Len(text)
           THEN escapeHtml(substring(text, lastIndex, Len(text))) ELSE ""
    ELSE LET segment == resolved[k]
             before == IF segment.start > lastIndex
                         THEN escapeHtml(substring(text, lastIndex, segment.start))
                         ELSE ""
         IN before
              \o wrapInHighlights(substring(text, segment.start, segment.end),
                                  segment.highlights)
              \o htmlFrom(text, resolved, k + 1, segment.end)

generateHTMLToLastSegment(text, resolved) ==
  IF Len(resolved) = 0 THEN escapeHtml(text)
  ELSE htmlFrom(substring(text, 0, resolved[Len(resolved)].end), resolved, 1, 0)

generateHTML(text, resolved) ==
  IF Len(resolved) = 0 THEN escapeHtml(text) ELSE htmlFrom(text, resolved, 1, 0)

RECURSIVE split(_, _)
\* text.split("\n"): `line` is the line being read
split(text, line) ==
  IF Len(text) = 0 THEN <<line>>
  ELSE IF Head(text) = "\n" THEN <<line>> \o split(Tail(text), <<>>)
  ELSE split(Tail(text), Append(line, Head(text)))

RECURSIVE lineReportFrom(_, _, _, _)
\* lines.forEach of generateLineReport
lineReportFrom(lines, resolved, lineNumber, currentPos) ==
  IF lineNumber > Len(lines) THEN <<>>
  ELSE LET line == lines[lineNumber]
           lineStart == currentPos
           lineEnd == currentPos + Len(line)
           hit == SelectSeq(resolved,
                    LAMBDA segment : segment.start < lineEnd /\ segment.end > lineStart)
           lineHighlights ==
             [i \in 1..Len(hit) |->
                [start |-> Max(0, hit[i].start - lineStart),
                 end |-> Min(Len(line), hit[i].end - lineStart),
                 highlights |-> hit[i].highlights]]
       IN (IF Len(lineHighlights) > 0
             THEN <<[lineNumber |-> lineNumber, lineText |-> line, hasIssues |-> TRUE,
                     highlights |-> lineHighlights]>>
             ELSE <<>>)
            \o lineReportFrom(lines, resolved, lineNumber + 1, lineEnd + 1)

generateLineReportFromZero(text, resolved) ==
  LET report == lineReportFrom(split(text, <<>>), resolved, 1, 0)
  IN [i \in 1..Len(report) |-> [report[i] EXCEPT !.lineNumber = @ - 1]]

generateLineReport(text, resolved) == lineReportFrom(split(text, <<>>), resolved, 1, 0)

HighlightIdByStart(h) == <<h.type, h.start, 0>>

\* `${h.type}_${h.start}_${h.length}`
HighlightId(h) == <<h.type, h.start, h.length>>

\* segment.highlights.forEach over resolvedHighlights.forEach
HighlightsOf(resolved) ==
  UNION {{resolved[i].highlights[j] : j \in 1..Len(resolved[i].highlights)} :
           i \in 1..Len(resolved)}

RECURSIVE pairCountFrom(_, _, _)
pairCountFrom(resolved, type, i) ==
  IF i > Len(resolved) THEN 0
  ELSE Len(SelectSeq(resolved[i].highlights, LAMBDA h : h.type = type))
         + pairCountFrom(resolved, type, i + 1)

pairCount(resolved, type) == pairCountFrom(resolved, type, 1)

\* uniqueGrammarIds.size / uniquePlagiarismIds.size
uniqueCount(resolved, type) ==
  Cardinality({HighlightId(h) : h \in {x \in HighlightsOf(resolved) : x.type = type}})

\* a text argument that is undefined (no character of a text is this value)
undefined == <<"undefined">>

\* the early return for !text
emptyHighlights ==
  [textLength |-> 0, highlights |-> <<>>, highlightedHTML |-> "", lineReport |-> <<>>,
   statistics |-> [totalHighlights |-> 0, grammarErrors |-> 0, plagiarismMatches |-> 0]]

combineHighlightsUnvalidated(text, errors, matches) ==
  LET allHighlights == sortByStart(collectHighlights(text, errors, matches), 1, <<>>)
      resolvedHighlights == resolveOverlaps(allHighlights)
  IN [textLength |-> Len(text),
      highlights |-> afterGenerateHTML(resolvedHighlights),
      highlightedHTML |-> generateHTML(text, resolvedHighlights),
      lineReport |-> generateLineReport(text, afterGenerateHTML(resolvedHighlights)),
      statistics |->
        [totalHighlights |-> Len(resolvedHighlights),
         grammarErrors |-> uniqueCount(resolvedHighlights, "grammar"),
         plagiarismMatches |-> uniqueCount(resolvedHighlights, "plagiarism")]]

combineHighlights(text, errors, matches) ==
  IF text = undefined \/ Len(text) = 0
    THEN emptyHighlights
    ELSE LET allHighlights == sortByStart(collectHighlights(text, errors, matches), 1, <<>>)
             resolvedHighlights == resolveOverlaps(allHighlights)
         IN [textLength |-> Len(text),
             highlights |-> afterGenerateHTML(resolvedHighlights),
             highlightedHTML |-> generateHTML(text, resolvedHighlights),
             lineReport |-> generateLineReport(text, afterGenerateHTML(resolvedHighlights)),
             statistics |->
               [totalHighlights |-> Len(resolvedHighlights),
                grammarErrors |-> uniqueCount(resolvedHighlights, "grammar"),
                plagiarismMatches |-> uniqueCount(resolvedHighlights, "plagiarism")]]

\* ------------------------------------------- compositor specification
HLTexts == {[i \in 1..n |-> "a"] : n \in 0..MaxTextLen}
AnnStarts == -1..MaxTextLen
AnnLengths == 0..MaxTextLen
GrammarErrors ==
  {[position |-> [start |-> s, length |-> l], type |-> "spelling"] :
     s \in AnnStarts, l \in AnnLengths}
PlagiarismMatches ==
  {[start |-> s, length |-> l, matchType |-> "identical"] :
     s \in AnnStarts, l \in AnnLengths}

InitHL ==
  /\ InitLC
  /\ \E ng, nm \in 0..MaxAnnotations :
       /\ ng + nm <= MaxAnnotations
       /\ \E text \in HLTexts \cup {undefined}, g \in [1..ng -> GrammarErrors],
             m \in [1..nm -> PlagiarismMatches] :
            hlInput = [text |-> text, grammar |-> g, matches |-> m]
  /\ hlOutput = NotRun
  /\ retry = RetryIdle

CombineHighlights ==
  /\ hlOutput = NotRun
  /\ hlOutput' = combineHighlights(hlInput.text, hlInput.grammar, hlInput.matches)
  /\ UNCHANGED hlInput
  /\ UNCHANGED <<varsLC, retry>>

NextHL == CombineHighlights

SpecHL == InitHL /\ [][NextHL]_vars

\* ------------------------------------------------- the documented example
\* "The cat sat. The cat ran." and the same text broken after the first sentence
ExampleText ==
  <<"T", "h", "e", " ", "c", "a", "t", " ", "s", "a", "t", ".", " ",
    "T", "h", "e", " ", "c", "a", "t", " ", "r", "a", "n", ".">>
ExampleTexts == {ExampleText, [ExampleText EXCEPT ![13] = "\n"]}
\* the categories of a grammar error, and one the highlighter has no class for
ErrorTypes == {"grammar", "spelling", "punctuation", "style", "unknown"}
ExampleGrammar ==
  {[position |-> [start |-> s, length |-> l], type |-> type] :
     s \in {0, 4, 13, 17}, l \in {3, 12}, type \in ErrorTypes}
ExampleMatches ==
  {[start |-> s, length |-> l, matchType |-> type] :
     s \in {0, 4, 13}, l \in {3, 12, 25},
     type \in {MatchTypes[i] : i \in 1..Len(MatchTypes)} \cup {"paraphrased"}}

InitExample ==
  /\ InitLC
  /\ \E text \in ExampleTexts, error \in ExampleGrammar, match \in ExampleMatches :
       hlInput = [text |-> text, grammar |-> <<error>>, matches |-> <<match>>]
  /\ hlOutput = NotRun
  /\ retry = RetryIdle

SpecExample == InitExample /\ [][NextHL]_vars

\* ------------------------------- texts with line breaks and other characters
\* the characters of a text: a letter, a line break, a character that
\* escapeHtml replaces, and one outside the Basic Multilingual Plane
CodePoints == {"a", "\n", "<", "U+1F600"}

\* the UTF-16 code units of one character: a JavaScript string holds a
\* character outside the Basic Multilingual Plane as a surrogate pair
utf16(char) == IF char = "U+1F600" THEN <<"D83D", "DE00">> ELSE <<char>>

RECURSIVE jsString(_)
\* the string value of a text: its characters' code units in sequence
jsString(chars) ==
  IF Len(chars) = 0 THEN <<>> ELSE utf16(Head(chars)) \o jsString(Tail(chars))

CharTexts ==
  {jsString(chars) : chars \in UNION {[1..n -> CodePoints] : n \in 0..MaxTextLen}}
CharGrammar ==
  {[position |-> [start |-> s, length |-> l], type |-> "spelling"] :
     s \in 0..MaxTextLen, l \in 1..MaxTextLen}
CharMatches ==
  {[start |-> s, length |-> l, matchType |-> "identical"] :
     s \in 0..MaxTextLen, l \in 1..MaxTextLen}

InitChars ==
  /\ InitLC
  /\ \E text \in CharTexts, error \in CharGrammar, match \in CharMatches :
       hlInput = [text |-> text, grammar |-> <<error>>, matches |-> <<match>>]
  /\ hlOutput = NotRun
  /\ retry = RetryIdle

SpecChars == InitChars /\ [][NextHL]_vars

\* ------------------------------------- two matches with their categories
PairMatches ==
  {[start |-> s, length |-> l, matchType |-> type] :
     s \in 0..MaxTextLen, l \in 1..MaxTextLen, type \in {MatchTypes[1], MatchTypes[2]}}

InitPair ==
  /\ InitLC
  /\ \E text \in HLTexts, first \in PairMatches, second \in PairMatches :
       hlInput = [text |-> text, grammar |-> <<>>, matches |-> <<first, second>>]
  /\ hlOutput = NotRun
  /\ retry = RetryIdle

SpecPair == InitPair /\ [][NextHL]_vars

\* ------------------------------------------------ compositor properties
Composed == hlOutput # NotRun

\* text.length of the text given to the compositor, 0 when it is undefined
TextLength == IF hlInput.text = undefined THEN 0 ELSE Len(hlInput.text)

\* the input annotations of both families as (family, start, length)
FedIn ==
  [i \in 1..Len(hlInput.grammar) |->
     <<"grammar", hlInput.grammar[i].position.start, hlInput.grammar[i].position.length>>]
  \o [i \in 1..Len(hlInput.matches) |->
        <<"plagiarism", hlInput.matches[i].start, hlInput.matches[i].length>>]

\* an input annotation after clamping to the text: <<family, start, length>>
Clamped(a) ==
  LET start == IF a[2] < 0 THEN 0 ELSE a[2]
      room == TextLength - start
  IN <<a[1], start, IF a[3] < room THEN a[3] ELSE room>>

\* the clamped input annotations of positive length
Surviving == {Clamped(FedIn[i]) : i \in {k \in 1..Len(FedIn) : Clamped(FedIn[k])[3] > 0}}

\* C7: the Segments returned are pairwise non-overlapping, each has
\* start < end within [0, textLength], and they are in ascending order of start.
C7_SegmentsDisjointSorted ==
  Composed =>
    LET segs == hlOutput.highlights
    IN /\ \A i \in 1..Len(segs) :
            0 <= segs[i].start /\ segs[i].start < segs[i].end
              /\ segs[i].end <= hlOutput.textLength
       /\ \A i, j \in 1..Len(segs) : i < j => segs[i].end <= segs[j].start

\* C7 witness: overlapping annotations were composed into three Segments.
C7_Witness ==
  /\ Composed
  /\ Len(hlOutput.highlights) >= 3
  /\ \E i \in 1..Len(hlOutput.highlights) : Len(hlOutput.highlights[i].highlights) = 2

\* C8: a text position lies inside some returned Segment iff at least one
\* annotation, clamped and of positive resulting length, covers it.
C8_CoverageExact ==
  Composed =>
    \A p \in 0..(TextLength - 1) :
      (\E i \in 1..Len(hlOutput.highlights) :
         hlOutput.highlights[i].start <= p /\ p < hlOutput.highlights[i].end)
      <=> (\E a \in Surviving : a[2] <= p /\ p < a[2] + a[3])

\* C8 witness: a composed text with a covered position, an uncovered
\* position and an annotation that was clamped.
C8_Witness ==
  /\ Composed
  /\ \E p, q \in 0..(TextLength - 1) :
       /\ \E a \in Surviving : a[2] <= p /\ p < a[2] + a[3]
       /\ ~\E a \in Surviving : a[2] <= q /\ q < a[2] + a[3]
  /\ \E i \in 1..Len(FedIn) : Clamped(FedIn[i]) # FedIn[i] /\ Clamped(FedIn[i])[3] > 0

CountedAnnotations ==
  hlOutput.statistics.grammarErrors + hlOutput.statistics.plagiarismMatches

\* C9 as stated, on the inputs most favourable to it (every annotation fed
\* in lies within the text with positive length, so clamping changes
\* nothing): the number of distinct annotations counted in the statistics
\* equals the number of annotations fed into the compositor.
C9_Original ==
  (Composed /\ \A i \in 1..Len(FedIn) : Clamped(FedIn[i]) = FedIn[i] /\ FedIn[i][3] > 0)
    => CountedAnnotations = Len(FedIn)

\* C9 (as amended): the number of annotations counted in the statistics
\* equals the number of distinct (family, start, length) triples among the
\* input annotations that remain, with positive length, after clamping.
C9_CountsDistinctSurviving == Composed => CountedAnnotations = Cardinality(Surviving)

\* C9 witness: two annotations with the same family and range were fed in
\* and counted once.
C9_Witness ==
  /\ Composed
  /\ Len(FedIn) = 2
  /\ Clamped(FedIn[1]) = Clamped(FedIn[2])
  /\ CountedAnnotations = 1

SegmentsWith(id) ==
  {i \in 1..Len(hlOutput.highlights) :
     \E j \in 1..Len(hlOutput.highlights[i].highlights) :
       HighlightId(hlOutput.highlights[i].highlights[j]) = id}

FamilyCount(type) ==
  IF type = "grammar" THEN hlOutput.statistics.grammarErrors
  ELSE hlOutput.statistics.plagiarismMatches

\* C10: an annotation that is split across N >= 2 Segments adds exactly 1
\* to its family's count: the count is 1 more than the number of other
\* distinct annotations of that family.
C10_SplitCountedOnce ==
  Composed =>
    \A a \in Surviving :
      Cardinality(SegmentsWith(a)) >= 2
        => FamilyCount(a[1]) = 1 + Cardinality({b \in Surviving : b[1] = a[1] /\ b # a})

\* C10 witness: an annotation lies in three Segments and its family's count is 1.
C10_Witness ==
  /\ Composed
  /\ \E a \in Surviving : Cardinality(SegmentsWith(a)) = 3 /\ FamilyCount(a[1]) = 1

\* C25: composing with empty or missing text, for any annotations, returns
\* zero Segments, empty markup, an empty line report and all statistics zero.
C25_EmptyTextEmptyResult ==
  (Composed /\ TextLength = 0)
    => /\ hlOutput.highlights = <<>>
       /\ hlOutput.highlightedHTML = ""
       /\ hlOutput.lineReport = <<>>
       /\ hlOutput.statistics.totalHighlights = 0
       /\ hlOutput.statistics.grammarErrors = 0
       /\ hlOutput.statistics.plagiarismMatches = 0

\* C25 witness: a missing text was composed with one annotation of each
\* family that starts at 0 with positive length.
C25_Witness ==
  /\ Composed
  /\ hlInput.text = undefined
  /\ Len(hlInput.grammar) = 1 /\ Len(hlInput.matches) = 1
  /\ \A i \in 1..2 : FedIn[i][2] = 0 /\ FedIn[i][3] > 0
  /\ hlOutput = emptyHighlights

\* the input of the documented example
ExampleInput ==
  [text |-> ExampleText,
   grammar |-> <<[position |-> [start |-> 4, length |-> 3], type |-> "spelling"]>>,
   matches |-> <<[start |-> 0, length |-> 12, matchType |-> "identical"]>>]

\* the categories active in the i-th returned Segment
ActiveCategories(i) ==
  {hlOutput.highlights[i].highlights[j].subType :
     j \in 1..Len(hlOutput.highlights[i].highlights)}

\* C26: for "The cat sat. The cat ran." with the editorial annotation
\* {4, 3, spelling} and the content-match annotation {0, 12, identical} the
\* Segments are [0,4) {identical}, [4,7) {identical, spelling} and [7,12)
\* {identical}, the statistics count 1 editorial and 1 content-match
\* annotation, and the line report has a single entry, for line 1.
C26_DocumentedExample ==
  (Composed /\ hlInput = ExampleInput)
    => LET segs == hlOutput.highlights
       IN /\ Len(segs) = 3
          /\ <<segs[1].start, segs[1].end>> = <<0, 4>>
          /\ ActiveCategories(1) = {"identical"}
          /\ <<segs[2].start, segs[2].end>> = <<4, 7>>
          /\ ActiveCategories(2) = {"identical", "spelling"}
          /\ <<segs[3].start, segs[3].end>> = <<7, 12>>
          /\ ActiveCategories(3) = {"identical"}
          /\ \A i \in 1..3 : Len(segs[i].highlights) = Cardinality(ActiveCategories(i))
          /\ hlOutput.statistics.grammarErrors = 1
          /\ hlOutput.statistics.plagiarismMatches = 1
          /\ Len(hlOutput.lineReport) = 1
          /\ hlOutput.lineReport[1].lineNumber = 1

\* C26 witness: the documented example was composed.
C26_Witness == Composed /\ hlInput = ExampleInput /\ Len(hlOutput.lineReport) = 1

\* the ids of the annotations active in the i-th returned Segment
ActiveIds(i) ==
  {HighlightId(hlOutput.highlights[i].highlights[j]) :
     j \in 1..Len(hlOutput.highlights[i].highlights)}

\* the returned Segments that contain text position p
SegmentsAt(p) ==
  {i \in 1..Len(hlOutput.highlights) :
     hlOutput.highlights[i].start <= p /\ p < hlOutput.highlights[i].end}

\* C27: each Segment's active set is exactly the set of clamped annotations
\* whose range contains the Segment's whole range; two overlapping
\* annotations are both active in exactly one Segment at every position of
\* their overlap; two annotations that only touch end-to-end are never
\* active in the same Segment.
C27_ActiveSetExact ==
  Composed =>
    /\ \A i \in 1..Len(hlOutput.highlights) :
         ActiveIds(i) =
           {a \in Surviving :
              a[2] <= hlOutput.highlights[i].start
                /\ hlOutput.highlights[i].end <= a[2] + a[3]}
    /\ \A a, b \in Surviving :
         /\ \A p \in 0..(TextLength - 1) :
              (a[2] <= p /\ p < a[2] + a[3] /\ b[2] <= p /\ p < b[2] + b[3])
                => /\ Cardinality(SegmentsAt(p)) = 1
                   /\ \A i \in SegmentsAt(p) : {a, b} \subseteq ActiveIds(i)
         /\ a[2] + a[3] = b[2]
              => \A i \in 1..Len(hlOutput.highlights) : ~({a, b} \subseteq ActiveIds(i))

\* C27 witness: two annotations that overlap in part were composed into
\* three Segments, the middle one with both active.
C27_Witness ==
  /\ Composed
  /\ \E a, b \in Surviving :
       /\ a[2] < b[2] /\ b[2] < a[2] + a[3] /\ a[2] + a[3] < b[2] + b[3]
       /\ Len(hlOutput.highlights) = 3
       /\ ActiveIds(1) = {a} /\ ActiveIds(2) = {a, b} /\ ActiveIds(3) = {b}

\* the annotations listed in the returned Segments
Listed == HighlightsOf(hlOutput.highlights)

\* C28: every annotation kept is an input annotation clamped as
\* start := max(0, start), length := min(length, textLength - start), and
\* satisfies 0 <= start, length > 0 and start + length <= textLength; an
\* input annotation whose clamped length is not positive is in no Segment
\* and in no statistic.
C28_ClampedWithinText ==
  Composed =>
    /\ \A h \in Listed :
         /\ 0 <= h.start /\ h.length > 0 /\ h.start + h.length <= TextLength
         /\ h.end = h.start + h.length
         /\ \E i \in 1..Len(FedIn) : HighlightId(h) = Clamped(FedIn[i])
    /\ \A i \in 1..Len(FedIn) :
         Clamped(FedIn[i])[3] <= 0
           => /\ \A h \in Listed : HighlightId(h) # Clamped(FedIn[i])
              /\ FamilyCount(FedIn[i][1]) =
                   Cardinality({Clamped(FedIn[k]) :
                                  k \in {n \in 1..Len(FedIn) :
                                           /\ n # i
                                           /\ FedIn[n][1] = FedIn[i][1]
                                           /\ Clamped(FedIn[n])[3] > 0}})

\* C28 witness: of two annotations composed, one was shortened to the end
\* of the text and is listed, the other starts at the end of the text and
\* is in no Segment.
C28_Witness ==
  /\ Composed
  /\ Len(FedIn) = 2
  /\ \E i, k \in 1..2 :
       /\ FedIn[i][2] > 0 /\ FedIn[i][2] + FedIn[i][3] > TextLength
       /\ Clamped(FedIn[i]) \in {HighlightId(h) : h \in Listed}
       /\ FedIn[k][2] = TextLength /\ FedIn[k][3] > 0
       /\ CountedAnnotations = 1

\* C29: in the result returned, each Segment lists its active annotations
\* in activation order: an annotation is never listed before one that
\* starts earlier in the text.
C29_ListedInActivationOrder ==
  Composed =>
    \A i \in 1..Len(hlOutput.highlights) :
      \A j, k \in 1..Len(hlOutput.highlights[i].highlights) :
        j < k => hlOutput.highlights[i].highlights[j].start
                   <= hlOutput.highlights[i].highlights[k].start

\* the position in the input of the first annotation that clamps to h
FirstInput(h) ==
  CHOOSE i \in 1..Len(FedIn) :
    /\ Clamped(FedIn[i]) = HighlightId(h)
    /\ \A k \in 1..(i - 1) : Clamped(FedIn[k]) # HighlightId(h)

\* g is activated no later than h: it starts earlier, or at the same
\* position and comes first in the input
ActivatedBefore(g, h) ==
  g.start < h.start \/ (g.start = h.start /\ FirstInput(g) <= FirstInput(h))

\* the annotations of the i-th returned Segment in activation order
InActivationOrder(i) ==
  LET list == hlOutput.highlights[i].highlights
      n == Len(list)
      order == CHOOSE f \in [1..n -> 1..n] :
                 /\ \A a, b \in 1..n : a # b => f[a] # f[b]
                 /\ \A a, b \in 1..n : a < b => ActivatedBefore(list[f[a]], list[f[b]])
  IN [a \in 1..n |-> list[order[a]]]

RECURSIVE Nested(_, _)
\* one element per annotation around `inner`, the first of `list` outermost
Nested(list, inner) ==
  IF Len(list) = 0 THEN inner
  ELSE "<span class=\"" \o getCssClass(Head(list)) \o "\" "
         \o getDataAttributes(Head(list)) \o ">" \o Nested(Tail(list), inner) \o "</span>"

RECURSIVE MarkupFrom(_, _)
\* the markup of the text from `lastIndex` on, given the Segments from the
\* k-th on, each wrapped with its earliest activated annotation outermost
MarkupFrom(k, lastIndex) ==
  IF k > Len(hlOutput.highlights)
    THEN escapeHtml(SubSeq(hlInput.text, lastIndex + 1, TextLength))
    ELSE LET segment == hlOutput.highlights[k]
         IN escapeHtml(SubSeq(hlInput.text, lastIndex + 1, segment.start))
              \o Nested(InActivationOrder(k),
                        escapeHtml(SubSeq(hlInput.text, segment.start + 1, segment.end)))
              \o MarkupFrom(k + 1, segment.end)

\* C30: in the markup every Segment is wrapped in one nested element per
\* active annotation, the earliest activated outermost and the most
\* recently activated innermost.
C30_LatestActivatedInnermost ==
  (Composed /\ TextLength > 0) => hlOutput.highlightedHTML = MarkupFrom(1, 0)

\* C30 witness: a Segment with one annotation of each family, activated at
\* different positions, was serialized.
C30_Witness ==
  /\ Composed
  /\ \E i \in 1..Len(hlOutput.highlights) :
       /\ Len(hlOutput.highlights[i].highlights) = 2
       /\ InActivationOrder(i)[1].type = "plagiarism"
       /\ InActivationOrder(i)[2].type = "grammar"
       /\ InActivationOrder(i)[1].start < InActivationOrder(i)[2].start
  /\ hlOutput.highlightedHTML = MarkupFrom(1, 0)

\* the classes documented for the editorial categories
EditorialClass ==
  [grammar |-> "grammar-error", spelling |-> "spelling-error",
   punctuation |-> "punctuation-error", style |-> "style-issue"]

\* C31: the wrapper of an editorial annotation of category grammar,
\* spelling, punctuation or style has that category's own class, and the
\* wrapper of a content-match annotation whose subtype is one of those
\* extracted from exported payloads (identical, minorChanges,
\* relatedMeaning) has a specific class, not the generic match class.
C31_ClassPerCategory ==
  (Composed /\ TextLength > 0) =>
    /\ hlOutput.highlightedHTML = MarkupFrom(1, 0)
    /\ \A h \in Listed :
         /\ (h.type = "grammar" /\ h.subType \in DOMAIN EditorialClass)
              => getCssClass(h) = EditorialClass[h.subType]
         /\ (h.type = "plagiarism" /\ \E i \in 1..Len(MatchTypes) : h.subType = MatchTypes[i])
              => getCssClass(h) # "plagiarism-match"

\* the lines of the text given to the compositor, without their line breaks
Lines == split(hlInput.text, <<>>)

RECURSIVE LineStart(_)
\* the offset in the text of the first character of the k-th line
LineStart(k) == IF k = 1 THEN 0 ELSE LineStart(k - 1) + Len(Lines[k - 1]) + 1

\* the part of the i-th returned Segment that lies on the k-th line, in
\* offsets of that line
OnLine(i, k) ==
  [start |-> Max(hlOutput.highlights[i].start, LineStart(k)) - LineStart(k),
   end |-> Min(hlOutput.highlights[i].end, LineStart(k) + Len(Lines[k])) - LineStart(k)]

\* the lines that share at least one character with a returned Segment
LinesWithSegments ==
  {k \in 1..Len(Lines) :
     \E i \in 1..Len(hlOutput.highlights) : OnLine(i, k).start < OnLine(i, k).end}

\* C32: the line report has exactly one entry for each line that shares
\* characters with a Segment and none for any other line (empty lines
\* included); every range of an entry is the intersection of a Segment
\* with the line in offsets of the line, with 0 <= start < end <= length
\* of the line.
C32_LineReportExact ==
  (Composed /\ TextLength > 0) =>
    LET report == hlOutput.lineReport
    IN /\ {report[n].lineNumber : n \in 1..Len(report)} = LinesWithSegments
       /\ \A n, m \in 1..Len(report) : n < m => report[n].lineNumber < report[m].lineNumber
       /\ \A n \in 1..Len(report) :
            \A r \in 1..Len(report[n].highlights) :
              LET range == report[n].highlights[r]
              IN /\ 0 <= range.start /\ range.start < range.end
                 /\ range.end <= Len(Lines[report[n].lineNumber])
                 /\ \E i \in 1..Len(hlOutput.highlights) :
                      /\ OnLine(i, report[n].lineNumber) =
                           [start |-> range.start, end |-> range.end]
                      /\ range.highlights = hlOutput.highlights[i].highlights

\* the content-match annotations that remain after clamping, each with its
\* category: <<category, start, length>>
SurvivingMatchCategories ==
  {<<hlInput.matches[i].matchType,
     Clamped(FedIn[Len(hlInput.grammar) + i])[2],
     Clamped(FedIn[Len(hlInput.grammar) + i])[3]>> :
     i \in {k \in 1..Len(hlInput.matches) :
              Clamped(FedIn[Len(hlInput.grammar) + k])[3] > 0}}

\* C33: the content-match statistic counts the distinct annotations by
\* category + start + length: two matches over the same range with
\* different categories are counted as two.
C33_IdentityIncludesCategory ==
  Composed => hlOutput.statistics.plagiarismMatches = Cardinality(SurvivingMatchCategories)

\* the number of characters (code points) of the text given to the
\* compositor: a surrogate pair is one character
CodePointCount ==
  TextLength - Cardinality({n \in 2..TextLength :
                              hlInput.text[n - 1] = "D83D" /\ hlInput.text[n] = "DE00"})

\* a position of the text that lies between the two halves of a surrogate pair
InsideCharacter(p) ==
  p \in 1..(TextLength - 1) /\ hlInput.text[p] = "D83D" /\ hlInput.text[p + 1] = "DE00"

\* C35: offsets and lengths are counted in code points: the textLength
\* used for clamping is the number of code points of the text, and a
\* Segment starts and ends between two characters, never inside one.
C35_OffsetsInCodePoints ==
  (Composed /\ TextLength > 0) =>
    /\ hlOutput.textLength = CodePointCount
    /\ \A i \in 1..Len(hlOutput.highlights) :
         /\ hlOutput.highlights[i].end <= CodePointCount
         /\ ~InsideCharacter(hlOutput.highlights[i].start)
         /\ ~InsideCharacter(hlOutput.highlights[i].end)

RECURSIVE Serialized(_, _, _)
\* the text from `lastIndex` on, escaped, in gaps and Segments from the k-th
\* Segment on; with `wrappers` every Segment is inside its elements, without
\* them the elements are removed and their content stays
Serialized(k, lastIndex, wrappers) ==
  IF k > Len(hlOutput.highlights)
    THEN escapeHtml(SubSeq(hlInput.text, lastIndex + 1, TextLength))
    ELSE LET segment == hlOutput.highlights[k]
             inner == escapeHtml(SubSeq(hlInput.text, segment.start + 1, segment.end))
         IN escapeHtml(SubSeq(hlInput.text, lastIndex + 1, segment.start))
              \o (IF wrappers THEN Nested(InActivationOrder(k), inner) ELSE inner)
              \o Serialized(k + 1, segment.end, wrappers)

RECURSIVE CharactersFrom(_, _)
\* the characters serialized from `lastIndex` on, gap by gap and Segment by
\* Segment from the k-th Segment on
CharactersFrom(k, lastIndex) ==
  IF k > Len(hlOutput.highlights)
    THEN SubSeq(hlInput.text, lastIndex + 1, TextLength)
    ELSE LET segment == hlOutput.highlights[k]
         IN SubSeq(hlInput.text, lastIndex + 1, segment.start)
              \o SubSeq(hlInput.text, segment.start + 1, segment.end)
              \o CharactersFrom(k + 1, segment.end)

\* C39: removing the wrapper elements from the serialized markup yields
\* exactly the escaped original text: every character of the text appears
\* exactly once and in order, whether it lies inside a Segment or in a gap
\* between Segments.
C39_UnwrappedIsEscapedText ==
  (Composed /\ TextLength > 0)
    => /\ hlOutput.highlightedHTML = Serialized(1, 0, TRUE)
       /\ Serialized(1, 0, FALSE) = escapeHtml(hlInput.text)
       /\ CharactersFrom(1, 0) = hlInput.text

\* C39 witness: a text with a character to escape in a gap, another inside
\* a Segment and a line break in the gap after it was serialized.
C39_Witness ==
  /\ Composed
  /\ hlInput.text = <<"<", "<", "\n">>
  /\ Len(hlOutput.highlights) = 1
  /\ hlOutput.highlights[1].start = 1
  /\ hlOutput.highlights[1].end = 2
  /\ Len(hlOutput.highlights[1].highlights) = 2
  /\ hlOutput.highlightedHTML = Serialized(1, 0, TRUE)
  /\ Serialized(1, 0, FALSE) = "&lt;&lt;\n"

\* ------------------------------------------------------ highlightService
\* the characters of the texts the model submits or crawls
Chars(text) ==
  CASE text = "abc" -> <<"a", "b", "c">>
    [] text = "xyz" -> <<"x", "y", "z">>
    [] OTHER -> <<>>

\* comparison?.[type]?.source?.chars: one match per index of chars.starts
matchesOfType(result, type) ==
  IF type \notin DOMAIN result.comparison THEN <<>>
  ELSE LET chars == result.comparison[type]
       IN [index \in 1..Len(chars.starts) |->
             [start |-> chars.starts[index], length |-> chars.lengths[index],
              matchType |-> type, source |-> result.url, sourceUrl |-> result.url]]

matchesOfResult(result) ==
  matchesOfType(result, MatchTypes[1]) \o matchesOfType(result, MatchTypes[2])
    \o matchesOfType(result, MatchTypes[3])

\* for (const result of Object.values(results)): own keys in the order of
\* their first assignment
RECURSIVE extractMatchesFrom(_, _, _)
extractMatchesFrom(results, order, k) ==
  IF k > Len(order) THEN <<>>
  ELSE matchesOfResult(results[order[k]]) \o extractMatchesFrom(results, order, k + 1)

extractMatches(exported) == extractMatchesFrom(exported.results, exported.resultOrder, 1)

generateHighlightPayload(record) ==
  LET text == resolveBaseText(record)
  IN IF text = ""
       THEN [error |-> "No text available for highlighting"]
       ELSE LET result == combineHighlights(Chars(text), <<>>,
                                            extractMatches(record.exported))
            IN [statistics |-> result.statistics, highlights |-> result.highlights,
                highlightedHTML |-> result.highlightedHTML,
                lineReport |-> result.lineReport, textLength |-> result.textLength]

\* -------------------------------------- arrival order of exported results
\* exported-result callbacks for one scan: (resultId, body)
Deliveries == [resultId : ResultIds, data : ExportData]

\* the record of a scan of `text` after the callbacks of `deliveries` were
\* handled in that order
RECURSIVE StoreAfter(_, _, _)
StoreAfter(sc, deliveries, k) ==
  IF k > Len(deliveries) THEN sc
  ELSE StoreAfter(storeExportedResult(sc, 1, deliveries[k].resultId, deliveries[k].data),
                  deliveries, k + 1)

RecordAfter(text, deliveries) ==
  StoreAfter(Put(EmptyMap, 1, createScanRecord(text)), deliveries, 1)[1]

InitOrder ==
  /\ InitLC
  /\ retry = RetryIdle
  /\ hlOutput = NotRun
  /\ \E n1, n2 \in 0..MaxDeliveries :
       \E text \in Texts, first \in [1..n1 -> Deliveries], second \in [1..n2 -> Deliveries] :
         hlInput = [text |-> text, first |-> first, second |-> second]

\* GET /plagiarism/:scanId/highlights after each of the two arrival orders
GenerateHighlights ==
  /\ hlOutput = NotRun
  /\ hlOutput' =
       [first |-> generateHighlightPayload(RecordAfter(hlInput.text, hlInput.first)),
        second |-> generateHighlightPayload(RecordAfter(hlInput.text, hlInput.second))]
  /\ UNCHANGED <<hlInput, varsLC, retry>>

NextOrder == GenerateHighlights

SpecOrder == InitOrder /\ [][NextOrder]_vars

\* the two arrival orders leave the same final set resultId -> payload
SameFinalPayloads ==
  RecordAfter(hlInput.text, hlInput.first).exported.results
    = RecordAfter(hlInput.text, hlInput.second).exported.results

\* C11: for one record text and one final set of exported-result payloads
\* the highlight output (segments with their active-annotation lists,
\* statistics) is the same whatever order the callbacks arrived in.
C11_ArrivalOrderIrrelevant ==
  (hlOutput # NotRun /\ SameFinalPayloads) => hlOutput.first = hlOutput.second

\* ------------------------------------ PlagiarismScanner.retryWithBackoff
\* retryWithBackoff(fn, maxRetries = 3, initialDelay = 1000)
maxRetries == 3
initialDelay == 1000

\* what one `await fn()` settles as: the axios response, or an error that
\* carries the response's status, or an error without a response
AttemptOutcomes ==
  {[ok |-> TRUE, response |-> Some(st)] : st \in {200, 201}}
    \cup {[ok |-> FALSE, response |-> Some(st)] : st \in {400, 404, 429, 500, 503}}
    \cup {[ok |-> FALSE, response |-> Absent]}

\* error.response?.status >= 400 && < 500 && !== 429
isClientError(error) ==
  /\ error.response # Absent
  /\ error.response.v >= 400
  /\ error.response.v < 500
  /\ error.response.v # 429

backoffDelayConstant(attempt) == initialDelay

\* initialDelay * 2 ** (attempt - 1)
backoffDelay(attempt) == initialDelay * 2 ^ (attempt - 1)

InitRetry ==
  /\ InitLC
  /\ hlInput = HLIdle
  /\ hlOutput = NotRun
  /\ retry = [pc |-> "call", attempt |-> 1, outcomes |-> <<>>, delays |-> <<>>,
              settled |-> Null]

\* `await fn()` settles: return the result, or catch the error
AttemptSettles(outcome) ==
  /\ retry.pc = "call"
  /\ LET outcomes == Append(retry.outcomes, outcome)
     IN retry' =
          IF outcome.ok
            THEN [retry EXCEPT !.pc = "returned", !.outcomes = outcomes,
                               !.settled = Some(outcome)]
          ELSE IF isClientError(outcome)
            THEN [retry EXCEPT !.pc = "thrown", !.outcomes = outcomes,
                               !.settled = Some(outcome)]
          ELSE IF retry.attempt < maxRetries
            THEN [retry EXCEPT !.pc = "wait", !.outcomes = outcomes,
                               !.delays = Append(@, backoffDelay(retry.attempt))]
          ELSE [retry EXCEPT !.pc = "thrown", !.outcomes = outcomes,
                             !.settled = Some(outcome)]
  /\ UNCHANGED <<varsLC, varsHL>>

\* the setTimeout of the backoff fires: next iteration of the loop
TimerFires ==
  /\ retry.pc = "wait"
  /\ retry' = [retry EXCEPT !.pc = "call", !.attempt = @ + 1]
  /\ UNCHANGED <<varsLC, varsHL>>

NextRetry ==
  \/ \E outcome \in AttemptOutcomes : AttemptSettles(outcome)
  \/ TimerFires

\* every awaited provider call settles and every timer fires
SpecRetry == InitRetry /\ [][NextRetry]_vars /\ WF_vars(NextRetry)

\* --------------------------------------------------- retry properties
RetryDone == retry.pc \in {"returned", "thrown"}
Retryable(outcome) == ~outcome.ok /\ ~isClientError(outcome)
LastOutcome == retry.outcomes[Len(retry.outcomes)]
\* the waits that lie behind the attempts made so far
WaitsBehind ==
  IF RetryDone \/ retry.pc = "call" THEN retry.attempt - 1 ELSE retry.attempt

\* C13: the retry wrapper makes at most 3 attempts and ends; every attempt
\* before the last one made failed with something other than a 4xx status
\* that is not 429; it returns the result of a successful attempt at once,
\* throws the error of a 4xx (not 429) attempt at once, and otherwise
\* throws the error of the third attempt; it waited 1000 ms after the
\* first failed attempt and 2000 ms after the second.
C13_RetryBounded ==
  /\ [](/\ Len(retry.outcomes) <= maxRetries
        /\ Len(retry.outcomes) = IF retry.pc = "call" THEN retry.attempt - 1
                                 ELSE retry.attempt
        /\ \A i \in 1..Len(retry.outcomes) :
             (i < Len(retry.outcomes) \/ ~RetryDone) => Retryable(retry.outcomes[i])
        /\ retry.delays = SubSeq(<<1000, 2000>>, 1, WaitsBehind)
        /\ RetryDone =>
             /\ retry.settled = Some(LastOutcome)
             /\ retry.pc = "returned" <=> LastOutcome.ok
             /\ retry.pc = "thrown" =>
                  isClientError(LastOutcome) \/ Len(retry.outcomes) = 3)
  /\ <>RetryDone

\* the wrapper gave up after three attempts: a 429, a 5xx and an error
\* without response, having waited twice
C13_Witness ==
  /\ retry.pc = "thrown"
  /\ Len(retry.outcomes) = 3
  /\ retry.outcomes[1].response = Some(429)
  /\ retry.outcomes[2].response = Some(503)
  /\ retry.outcomes[3].response = Absent
  /\ retry.delays = <<1000, 2000>>


\* ------------------------------------------------------- CopyleaksClient
MaxLogins == 3     \* login requests issued in a run
MaxTime == 120     \* minutes on the clock in a run

\* Date.now() + 55 * 60 * 1000, in minutes
tokenLifetime == 55

UnchangedByClient ==
  UNCHANGED <<scans, nextScanId, inflight, reply, exportCalls, completedLog,
              errorLog, ops, varsHL, retry, exportEvent>>

TokenValidForever == client.authToken # Null /\ client.tokenExpiry # Null

\* this.authToken && this.tokenExpiry && Date.now() < this.tokenExpiry
TokenValid ==
  client.authToken # Null /\ client.tokenExpiry # Null
    /\ client.now < client.tokenExpiry.v

\* getAuthToken up to its return or to the await of the login request
GetAuthToken ==
  /\ IF TokenValid
       THEN client' = [client EXCEPT
                        !.returned = [token |-> client.authToken, at |-> client.now]]
       ELSE /\ client.issued < MaxLogins
            /\ client' = [client EXCEPT !.pending = @ + 1, !.issued = @ + 1]
  /\ UnchangedByClient

\* the login request is answered: login stores the token and its expiry
\* and getAuthToken returns it; or it fails and login throws
LoginReturn(ok) ==
  /\ client.pending > 0
  /\ client' =
       IF ok
         THEN [client EXCEPT !.pending = @ - 1, !.answered = @ + 1,
                             !.authToken = Some(client.answered + 1),
                             !.tokenExpiry = Some(client.now + tokenLifetime),
                             !.obtainedAt = Some(client.now),
                             !.returned = [token |-> Some(client.answered + 1),
                                           at |-> client.now]]
         ELSE [client EXCEPT !.pending = @ - 1, !.answered = @ + 1,
                             !.returned = [error |-> "Authentication failed"]]
  /\ UnchangedByClient

\* time passes
Tick(minutes) ==
  /\ client.now + minutes <= MaxTime
  /\ client' = [client EXCEPT !.now = @ + minutes]
  /\ UnchangedByClient

NextClient ==
  \/ GetAuthToken
  \/ \E ok \in BOOLEAN : LoginReturn(ok)
  \/ \E minutes \in {27, 28} : Tick(minutes)

SpecClient == Init /\ [][NextClient]_vars

\* ---------------------------------------------- CopyleaksClient properties
\* a token is cached and less than 55 minutes have passed since it was obtained
Unexpired == client.obtainedAt # Null /\ client.now - client.obtainedAt.v < 55

\* getAuthToken or login gives its caller a token in this step
ReturnsToken ==
  /\ GetAuthToken \/ \E ok \in BOOLEAN : LoginReturn(ok)
  /\ client'.returned # client.returned
  /\ "token" \in DOMAIN client'.returned

\* what a step of getAuthToken or of login does, as C36 states it
TokenCacheStep ==
  /\ (GetAuthToken /\ Unexpired)
       => (/\ client'.issued = client.issued
           /\ client'.returned = [token |-> client.authToken, at |-> client.now])
  /\ (GetAuthToken /\ ~Unexpired)
       => (client'.issued = client.issued + 1 /\ client'.returned = client.returned)
  /\ ReturnsToken
       => (/\ client'.returned.token = client'.authToken
           /\ client'.returned.at < client'.tokenExpiry.v)

\* C36: getAuthToken returns the cached token without a login request
\* while the cached token is unexpired (less than 55 minutes since it was
\* obtained), issues a login request otherwise, and never returns a token
\* whose recorded expiry time has passed.
C36_TokenCache == [][TokenCacheStep]_vars

\* C36 witness: a token obtained at minute 0 was returned from the cache
\* at minute 54, and a call at minute 82 has issued a second login request.
C36_Witness ==
  /\ client.obtainedAt = Some(0)
  /\ client.returned = [token |-> Some(1), at |-> 54]
  /\ client.now = 82
  /\ client.issued = 2
====
